---- MODULE Spec2Model ----
(***************************************************************************)
(* Model of the node runtime of gossip-glome-rs (src/src/lib.rs): the      *)
(* handshake, the outbound port IO with its pending-request table, the RPC *)
(* tender, the timer registry and the dispatch loop of Node::run.          *)
(*                                                                         *)
(* Time is a discrete clock `now` in milliseconds that advances in steps   *)
(* of Quantum.  The dispatcher is prompt: computation takes no time, and   *)
(* time passes only while the dispatch loop is blocked in recv_timeout     *)
(* with an empty queue and time left to wait.                              *)
(***************************************************************************)
EXTENDS Integers, Sequences, FiniteSets, TLC

\* ------------------------------------------------------------------ bounds
\* number of steps the clock takes
MaxClock == 4
\* number of lines the reader thread takes from STDIN after the handshake
MaxInput == 2

\* ------------------------------------------------------- program constants
TICK_DURATION == 1000
\* stands for Duration::MAX: larger than every duration of the model
DurationMAX == 1000000

\* Option::None for msg_id / in_reply_to
None == 0 - 1

Min(a, b) == IF a <= b THEN a ELSE b

\* Duration::checked_sub(..).unwrap_or_default(): saturating subtraction
checked_sub(a, b) == IF a >= b THEN a - b ELSE 0

\* ------------------------------------------------------------- data model
\* Payload of the handler under test.  type is the serde discriminator, the
\* other fields are the variant's fields (unused ones keep their default).
Payload(type, arg, to, timeout, retry) ==
    [type |-> type, arg |-> arg, to |-> to, timeout |-> timeout, retry |-> retry]

P0(type, arg) == Payload(type, arg, "", 0, FALSE)

\* Message<P> { src, dst, body: Body { id, in_reply_to, payload } }
Message(src, dst, id, in_reply_to, payload) ==
    [src |-> src, dst |-> dst,
     body |-> [id |-> id, in_reply_to |-> in_reply_to, payload |-> payload]]

\* Request<P>
Request(id, dst, payload, timeout, issued_at, retry) ==
    [id |-> id, dst |-> dst, payload |-> payload, timeout |-> timeout,
     issued_at |-> issued_at, retry |-> retry]

\* HashMap helpers
EmptyMap == [k \in {} |-> 0]
MapInsert(m, k, v) == [x \in (DOMAIN m) \cup {k} |-> IF x = k THEN v ELSE m[x]]
MapRemove(m, k) == [x \in (DOMAIN m) \ {k} |-> m[x]]
MapValues(m) == {m[k] : k \in DOMAIN m}

VARIABLES
    now,            \* the clock (ms)
    pc,             \* main thread: "init", "recv", "tend", "done", "failed"
    reader,         \* reader thread: "idle", "reading", "done", "failed"
    nread,          \* lines the reader has taken from STDIN
    init_msg,       \* the envelope read by the handshake
    io,             \* Node.io: [seq, cluster_state, stdout, pending_requests, hist]
    stdout_open,    \* FALSE once writes to STDOUT fail
    queue,          \* the mpsc channel in_tx -> in_rx
    event,          \* Node::run local: the event of the current iteration
    regs,           \* Timers.regs
    tick_timeout,   \* Node::run local
    last_tick,      \* Node::run local
    strict,         \* TRUE iff the handler's on_rpc_timeout returns an error
    decoded,        \* history: the msg_ids of the envelopes the reader decoded
    calls,          \* history: the handler callbacks Node::run has made
    nodes,          \* the nodes of a cluster (workload specifications)
    net             \* the envelopes in flight in a cluster (workload specifications)

\* the state of a cluster of nodes; the single-node runtime leaves it alone
world == <<nodes, net>>

vars == <<now, pc, reader, nread, init_msg, io, stdout_open, queue, event,
          regs, tick_timeout, last_tick, strict, decoded, calls, nodes, net>>

\* ClusterState
ClusterState(node_id, node_ids) == [node_id |-> node_id, node_ids |-> node_ids]

\* An entry of io.hist, the history of the pending table: op is "insert",
\* "complete" (removal by rpc_mark_completed) or "expire" (removal by the
\* tender); key is the key inserted or removed, request the entry, src the
\* sender of the completing reply, at the time of the operation.
Hist(op, key, request, src) ==
    [op |-> op, key |-> key, request |-> request, src |-> src, at |-> now]

\* IO { seq, cluster_state, stdout, pending_requests }; stdout holds the
\* envelopes written so far, hist is the history of pending_requests.
IO(seq, cs, stdout, pending_requests) ==
    [seq |-> seq, cluster_state |-> cs, stdout |-> stdout,
     pending_requests |-> pending_requests, hist |-> <<>>]

\* ------------------------------------------------------------ IO (lib.rs)
\* Every operation returns [io, ok, id]: the port afterwards, Ok/Err, and the
\* allocated msg_id.

\* send that forgets to advance the sequence counter
send_no_increment(io_, to, in_reply_to, payload) ==
    IF stdout_open
    THEN [io |-> [io_ EXCEPT
                    !.stdout = Append(@, Message(io_.cluster_state.node_id, to,
                                                 io_.seq, in_reply_to, payload))],
          ok |-> TRUE, id |-> io_.seq]
    ELSE [io |-> io_, ok |-> FALSE, id |-> None]

\* IO::send
send(io_, to, in_reply_to, payload) ==
    IF stdout_open
    THEN [io |-> [io_ EXCEPT
                    !.stdout = Append(@, Message(io_.cluster_state.node_id, to,
                                                 io_.seq, in_reply_to, payload)),
                    !.seq = @ + 1],
          ok |-> TRUE, id |-> io_.seq]
    ELSE [io |-> io_, ok |-> FALSE, id |-> None]

\* rpc_request that records the request whether or not the send succeeded
rpc_request_unchecked(io_, dst, request, timeout, retry) ==
    LET s == send(io_, dst, None, request)
        id == IF s.ok THEN s.id ELSE io_.seq
    IN [io |-> [s.io EXCEPT
                  !.pending_requests =
                      MapInsert(@, id, Request(id, dst, request, timeout, now, retry)),
                  !.hist = Append(@, Hist("insert", id,
                              Request(id, dst, request, timeout, now, retry), ""))],
        ok |-> TRUE, id |-> id]

\* IO::rpc_request
rpc_request(io_, dst, request, timeout, retry) ==
    LET s == send(io_, dst, None, request) IN
    IF ~s.ok THEN s
    ELSE [io |-> [s.io EXCEPT
                    !.pending_requests =
                        MapInsert(@, s.id, Request(s.id, dst, request, timeout, now, retry)),
                    !.hist = Append(@, Hist("insert", s.id,
                                Request(s.id, dst, request, timeout, now, retry), ""))],
          ok |-> TRUE, id |-> s.id]

\* IO::rpc_request_with_retry
rpc_request_with_retry(io_, dst, request, retry_after) ==
    rpc_request(io_, dst, request, retry_after, TRUE)

\* rpc_reply_to with the reply not correlated to the request
rpc_reply_to_uncorrelated(io_, message, reply) ==
    send(io_, message.src, None, reply)

\* IO::rpc_reply_to
rpc_reply_to(io_, message, reply) ==
    send(io_, message.src, message.body.id, reply)

\* removal of key k by a completion, with its history entry
complete(io_, k, message) ==
    [io_ EXCEPT
       !.pending_requests = MapRemove(@, k),
       !.hist = IF k \in DOMAIN io_.pending_requests
                THEN Append(@, Hist("complete", k, io_.pending_requests[k], message.src))
                ELSE @]

\* rpc_mark_completed reading an absent in_reply_to as 0 (unwrap_or_default)
rpc_mark_completed_default(io_, message) ==
    complete(io_, IF message.body.in_reply_to = None THEN 0
                  ELSE message.body.in_reply_to, message)

\* rpc_mark_completed completing the oldest pending request, whatever the
\* reply's in_reply_to
rpc_mark_completed_fifo(io_, message) ==
    IF message.body.in_reply_to # None /\ io_.pending_requests # EmptyMap
    THEN complete(io_, CHOOSE k \in DOMAIN io_.pending_requests :
                          \A x \in DOMAIN io_.pending_requests : k <= x, message)
    ELSE io_

\* rpc_mark_completed completing by sender: the newest request to message.src
rpc_mark_completed_by_src(io_, message) ==
    LET mine == {k \in DOMAIN io_.pending_requests :
                    io_.pending_requests[k].dst = message.src}
    IN IF message.body.in_reply_to # None /\ mine # {}
       THEN complete(io_, CHOOSE k \in mine : \A x \in mine : k >= x, message)
       ELSE io_

\* IO::rpc_mark_completed
rpc_mark_completed(io_, message) ==
    LET in_reply_to == message.body.in_reply_to IN
    IF in_reply_to # None
    THEN complete(io_, in_reply_to, message)
    ELSE io_

\* The orders in which HashMap::values() may yield the requests of set S
Orders(S) ==
    {f \in [1..Cardinality(S) -> S] : \A x \in S : \E i \in DOMAIN f : f[i] = x}

\* the loop of rpc_tend re-issuing a request without removing the expired one
RECURSIVE tend_loop_keep(_, _)
tend_loop_keep(io_, timedout) ==
    IF timedout = <<>> THEN [io |-> io_, ok |-> TRUE]
    ELSE
      LET r == Head(timedout) IN
      IF r.id \notin DOMAIN io_.pending_requests
      THEN [io |-> io_, ok |-> FALSE]
      ELSE
        LET request == io_.pending_requests[r.id]
            io1 == [io_ EXCEPT
                      !.pending_requests = MapRemove(@, r.id),
                      !.hist = Append(@, Hist("expire", r.id, request, ""))]
        IN
        IF request.retry
        THEN LET q == rpc_request_with_retry(io_, request.dst, request.payload,
                                             request.timeout)
             IN IF q.ok THEN tend_loop_keep(q.io, Tail(timedout))
                ELSE [io |-> q.io, ok |-> FALSE]
        ELSE tend_loop_keep(io1, Tail(timedout))

\* the loop of rpc_tend re-issuing every expired request, whatever its
\* retry flag
RECURSIVE tend_loop_always(_, _)
tend_loop_always(io_, timedout) ==
    IF timedout = <<>> THEN [io |-> io_, ok |-> TRUE]
    ELSE
      LET r == Head(timedout) IN
      IF r.id \notin DOMAIN io_.pending_requests
      THEN [io |-> io_, ok |-> FALSE]
      ELSE
        LET request == io_.pending_requests[r.id]
            io1 == [io_ EXCEPT
                      !.pending_requests = MapRemove(@, r.id),
                      !.hist = Append(@, Hist("expire", r.id, request, ""))]
        IN
        IF TRUE
        THEN LET q == rpc_request_with_retry(io1, request.dst, request.payload,
                                             request.timeout)
             IN IF q.ok THEN tend_loop_always(q.io, Tail(timedout))
                ELSE [io |-> q.io, ok |-> FALSE]
        ELSE tend_loop_always(io1, Tail(timedout))

\* the loop of rpc_tend issuing a request again under the id it had
RECURSIVE tend_loop_same_id(_, _)
tend_loop_same_id(io_, timedout) ==
    IF timedout = <<>> THEN [io |-> io_, ok |-> TRUE]
    ELSE
      LET r == Head(timedout) IN
      IF r.id \notin DOMAIN io_.pending_requests
      THEN [io |-> io_, ok |-> FALSE]
      ELSE
        LET request == io_.pending_requests[r.id]
            again == Request(r.id, request.dst, request.payload, request.timeout,
                             now, TRUE)
            io1 == [io_ EXCEPT
                      !.pending_requests = MapRemove(@, r.id),
                      !.hist = Append(@, Hist("expire", r.id, request, ""))]
            io2 == [io1 EXCEPT
                      !.stdout = Append(@, Message(io_.cluster_state.node_id,
                                                   request.dst, r.id, None,
                                                   request.payload)),
                      !.pending_requests = MapInsert(@, r.id, again),
                      !.hist = Append(@, Hist("insert", r.id, again, ""))]
        IN
        IF request.retry THEN tend_loop_same_id(io2, Tail(timedout))
        ELSE tend_loop_same_id(io1, Tail(timedout))

\* IO::rpc_tend, the loop `for r in &timedout`: returns [io, ok]
RECURSIVE tend_loop(_, _)
tend_loop(io_, timedout) ==
    IF timedout = <<>> THEN [io |-> io_, ok |-> TRUE]
    ELSE
      LET r == Head(timedout) IN
      IF r.id \notin DOMAIN io_.pending_requests
      THEN [io |-> io_, ok |-> FALSE]          \* bail!("this shouldn't happen")
      ELSE
        LET request == io_.pending_requests[r.id]
            io1 == [io_ EXCEPT
                      !.pending_requests = MapRemove(@, r.id),
                      !.hist = Append(@, Hist("expire", r.id, request, ""))]
        IN
        IF request.retry
        THEN LET q == rpc_request_with_retry(io1, request.dst, request.payload,
                                             request.timeout)
             IN IF q.ok THEN tend_loop(q.io, Tail(timedout))
                ELSE [io |-> q.io, ok |-> FALSE]
        ELSE tend_loop(io1, Tail(timedout))

\* The sleep hint of rpc_tend, computed over the entries that did not time out
tend_sleep(future) ==
    IF future = {} THEN DurationMAX
    ELSE LET left(r) == checked_sub(r.timeout, now - r.issued_at)
         IN CHOOSE d \in {left(r) : r \in future} :
                \A r \in future : d <= left(r)

\* IO::rpc_tend; timedout is the expired part of the table in the order the
\* HashMap yields it.  Returns [io, ok, timedout, sleep].
rpc_tend(io_, timedout) ==
    LET future == {r \in MapValues(io_.pending_requests) :
                      ~(now - r.issued_at >= r.timeout)}
        l == tend_loop(io_, timedout)
    IN [io |-> l.io, ok |-> l.ok, timedout |-> timedout,
        sleep |-> tend_sleep(future)]

\* the entries of the table with issued_at.elapsed() >= timeout
Expired(io_) ==
    {r \in MapValues(io_.pending_requests) : now - r.issued_at >= r.timeout}

\* ------------------------------------------------------- Timers (lib.rs)
\* TimerRegistration
TimerRegistration(timer, interval, last_fire) ==
    [timer |-> timer, interval |-> interval, last_fire |-> last_fire]

\* Event<P, T>
NoMessage == Message("", "", None, None, P0("", 0))
Event(kind, msg, timer) == [kind |-> kind, msg |-> msg, timer |-> timer]
\* the value of `event` outside the loop body
NoEvent == Event("", NoMessage, "")

\* the loop of Timers::fire catching up: a registration that is due sends one
\* event for every interval that has passed and moves last_fire on by as many
RECURSIVE fire_loop_catchup(_, _, _, _)
fire_loop_catchup(regs_, i, sleep, events) ==
    IF i > Len(regs_) THEN [regs |-> regs_, events |-> events, sleep |-> sleep]
    ELSE
      LET reg == regs_[i]
          last_fire == now - reg.last_fire
          due == last_fire \div reg.interval
      IN
      IF last_fire >= reg.interval
      THEN fire_loop_catchup(
              [regs_ EXCEPT ![i].last_fire = @ + due * reg.interval], i + 1,
              Min(sleep, reg.interval),
              events \o [k \in 1..due |-> Event("Timer", NoMessage, reg.timer)])
      ELSE fire_loop_catchup(regs_, i + 1,
                             checked_sub(reg.interval, last_fire), events)

\* Timers::fire, the loop over regs from index i on: returns
\* [regs, events, sleep], events being the Timer events sent to the channel
RECURSIVE fire_loop(_, _, _, _)
fire_loop(regs_, i, sleep, events) ==
    IF i > Len(regs_) THEN [regs |-> regs_, events |-> events, sleep |-> sleep]
    ELSE
      LET reg == regs_[i]
          last_fire == now - reg.last_fire
      IN
      IF last_fire >= reg.interval
      THEN fire_loop([regs_ EXCEPT ![i].last_fire = now], i + 1,
                     Min(sleep, reg.interval),
                     Append(events, Event("Timer", NoMessage, reg.timer)))
      ELSE fire_loop(regs_, i + 1, checked_sub(reg.interval, last_fire), events)

\* Timers::fire
fire(regs_) == fire_loop(regs_, 1, DurationMAX, <<>>)

\* ------------------------------------------- the handler (trait Server)
\* The runtime is generic in its handler.  The handler modelled here drives
\* the outbound port the way the workloads under src/src/bin do, one
\* operation per payload type:
\*   echo  -> rpc_reply_to            (echo.rs: Echo)
\*   ok    -> rpc_mark_completed      (g-counter.rs: ReplicateOk)
\*   call  -> rpc_request_with_retry  (g-counter.rs: Add)
\*   boom  -> bail!                   (g-counter.rs: ReadOk)
\* and its poll timer issues rpc_request without retry (kafka-multi-node.rs:
\* on_timer).
PollTimeout == 100

\* The handlers: the timers Server::init registers, as <<tag, interval>>, and
\* whether on_rpc_timeout returns an error (echo.rs, kafka-multi-node.rs) or
\* Ok (g-counter.rs, broadcast-tree.rs)
Handlers ==
    { [timers |-> <<>>, strict |-> FALSE],
      [timers |-> <<>>, strict |-> TRUE],
      [timers |-> << <<"poll", 100>>, <<"idle", 150>> >>, strict |-> FALSE] }

\* Server::on_message: returns [io, ok]
on_message(io_, input) ==
    LET p == input.body.payload IN
    CASE p.type = "echo" ->
           LET r == rpc_reply_to(io_, input, P0("echo_ok", p.arg))
           IN [io |-> r.io, ok |-> r.ok]
      [] p.type = "ok" ->
           [io |-> rpc_mark_completed(io_, input), ok |-> TRUE]
      [] p.type = "call" ->
           LET r == rpc_request_with_retry(io_, p.to, P0("work", p.arg), p.timeout)
           IN [io |-> r.io, ok |-> r.ok]
      [] OTHER -> [io |-> io_, ok |-> FALSE]

\* Server::on_timer: returns [io, ok]
on_timer(io_, timer) ==
    IF timer = "poll"
    THEN LET r == rpc_request(io_, "n2", P0("poll", 0), PollTimeout, FALSE)
         IN [io |-> r.io, ok |-> r.ok]
    ELSE [io |-> io_, ok |-> TRUE]

\* Server::on_rpc_timeout: Ok or Err
on_rpc_timeout(request) == ~strict

\* An entry of calls: the callback cb was invoked with arg (the msg_id of the
\* envelope, the timer tag or the id of the request), returned ok, and out
\* envelopes had been written when it returned.
Call(cb, arg, ok, out) == [cb |-> cb, arg |-> arg, ok |-> ok, out |-> out]

\* the callbacks made for the expired requests with retry only
rpc_timeout_calls_retry(timedout, out) ==
    LET retried == SelectSeq(timedout, LAMBDA r : r.retry)
        errs == {i \in DOMAIN retried : ~on_rpc_timeout(retried[i])}
        last == IF errs = {} THEN Len(retried)
                ELSE CHOOSE i \in errs : \A j \in errs : i <= j
    IN [i \in 1..last |->
           Call("on_rpc_timeout", retried[i].id, on_rpc_timeout(retried[i]), out)]

\* Node::run, `for r in timeouts { on_rpc_timeout(r)? }`: the callbacks made,
\* up to and including the first that returns an error
rpc_timeout_calls(timedout, out) ==
    LET errs == {i \in DOMAIN timedout : ~on_rpc_timeout(timedout[i])}
        last == IF errs = {} THEN Len(timedout)
                ELSE CHOOSE i \in errs : \A j \in errs : i <= j
    IN [i \in 1..last |->
           Call("on_rpc_timeout", timedout[i].id, on_rpc_timeout(timedout[i]), out)]

\* --------------------------------------------------------------- inputs
NodeId == "n1"
NodeIds == <<"n1", "n2", "n3">>

\* what the first line of STDIN can be
InitLines ==
    { [kind |-> "msg", msg |-> Message("c0", NodeId, 1, None, P0("init", 0))],
      [kind |-> "msg", msg |-> Message("c1", NodeId, 1, None, P0("echo", 0))],
      [kind |-> "malformed", msg |-> NoMessage] }

\* the timeouts the handler passes to rpc_request_with_retry (ms)
Timeouts == {50}

\* the step of the clock (ms): the shortest timeout in use
Quantum == CHOOSE t \in Timeouts : \A u \in Timeouts : t <= u

ReplySrcs == {"n2", "n3"}
ReplyIds == {0, 1}

\* the replies STDIN can carry, as <<src, in_reply_to>>: to the first request
\* from its destination and from another node, and to the second request
Replies == { <<"n2", 0>>, <<"n3", 0>>, <<"n2", 1>> }

\* what a later line of STDIN can be; id is the msg_id the sender gave it
InputLines(id) ==
    { [kind |-> "msg", msg |-> m] : m \in
        {Message("c1", NodeId, id, None, P0("echo", id))}
        \cup {Message("n2", NodeId, id, None, P0("ok", 0))}
        \cup {Message(r[1], NodeId, id, r[2], P0("ok", 0)) : r \in Replies}
        \cup {Message("c1", NodeId, id, None, Payload("call", id, "n2", t, TRUE)) :
                 t \in Timeouts}
        \cup {Message("c1", NodeId, id, None, P0("boom", 0))} }
    \cup { [kind |-> "malformed", msg |-> NoMessage],
           [kind |-> "eof", msg |-> NoMessage] }

\* ------------------------------------------------------------------ Init
Init ==
    /\ now = 0
    /\ pc = "init"
    /\ reader = "idle"
    /\ nread = 0
    /\ init_msg = NoMessage
    /\ io = IO(0, ClusterState("", <<>>), <<>>, EmptyMap)
    /\ stdout_open = TRUE
    /\ queue = <<>>
    /\ event = NoEvent
    /\ regs = <<>>
    /\ tick_timeout = 0
    /\ last_tick = 0
    /\ strict = FALSE
    /\ decoded = <<>>
    /\ calls = <<>>
    /\ nodes = <<>>
    /\ net = {}

\* ------------------------------------------------------------ Node::init
\* Reads the first line, builds the cluster state, runs the handler's init,
\* writes init_ok through init_io (a second IO with its own seq = 0), and
\* enters Node::run (the reader thread is spawned, tick_timeout = 0).
Node_init ==
    /\ pc = "init"
    /\ \E line \in InitLines, handler \in Handlers :
         IF line.kind = "msg" /\ line.msg.body.payload.type = "init"
         THEN
           LET cs == ClusterState(NodeId, NodeIds)
               init_io == IO(0, cs, io.stdout, EmptyMap)
               r == rpc_reply_to(init_io, line.msg, P0("init_ok", 0))
           IN
           /\ init_msg' = line.msg
           /\ io' = IO(0, cs, r.io.stdout, EmptyMap)
           /\ regs' = [i \in 1..Len(handler.timers) |->
                          TimerRegistration(handler.timers[i][1],
                                            handler.timers[i][2], now)]
           /\ strict' = handler.strict
           /\ IF r.ok
              THEN pc' = "recv" /\ reader' = "reading"
              ELSE pc' = "failed" /\ reader' = reader
           /\ tick_timeout' = 0
           /\ last_tick' = now
         ELSE
           /\ pc' = "failed"
           /\ UNCHANGED <<init_msg, io, regs, reader, tick_timeout, last_tick,
                          strict>>
    /\ UNCHANGED <<now, nread, stdout_open, queue, event, decoded, calls>>
    /\ UNCHANGED world

\* ------------------------------------------- Node::run, the reader thread
\* the reader putting what it read at the front of the channel
Reader_front ==
    /\ reader = "reading"
    /\ pc = "recv"
    /\ nread < MaxInput
    /\ \E line \in InputLines(nread + 2) :
         /\ nread' = nread + 1
         /\ CASE line.kind = "msg" ->
                   /\ queue' = <<Event("Message", line.msg, "")>> \o queue
                   /\ decoded' = Append(decoded, line.msg.body.id)
                   /\ reader' = reader
              [] line.kind = "eof" ->
                   /\ queue' = <<Event("EOF", NoMessage, "")>> \o queue
                   /\ decoded' = decoded
                   /\ reader' = "done"
              [] OTHER ->
                   /\ queue' = queue
                   /\ decoded' = decoded
                   /\ reader' = "failed"
    /\ UNCHANGED <<now, pc, init_msg, io, stdout_open, event, regs,
                   tick_timeout, last_tick, strict, calls>>
    /\ UNCHANGED world

\* Takes the next line from STDIN: a decoded envelope is sent to the channel,
\* a decode failure ends the thread with an error, the end of input sends EOF.
Reader ==
    /\ reader = "reading"
    /\ pc = "recv"
    /\ nread < MaxInput
    /\ \E line \in InputLines(nread + 2) :
         /\ nread' = nread + 1
         /\ CASE line.kind = "msg" ->
                   /\ queue' = Append(queue, Event("Message", line.msg, ""))
                   /\ decoded' = Append(decoded, line.msg.body.id)
                   /\ reader' = reader
              [] line.kind = "eof" ->
                   /\ queue' = Append(queue, Event("EOF", NoMessage, ""))
                   /\ decoded' = decoded
                   /\ reader' = "done"
              [] OTHER ->
                   /\ queue' = queue
                   /\ decoded' = decoded
                   /\ reader' = "failed"
    /\ UNCHANGED <<now, pc, init_msg, io, stdout_open, event, regs,
                   tick_timeout, last_tick, strict, calls>>
    /\ UNCHANGED world

\* ------------------------------------------ Node::run, the dispatch loop
\* the dispatch loop going on after on_message returned an error
RecvMessage_unchecked ==
    /\ pc = "recv"
    /\ queue # <<>>
    /\ Head(queue).kind = "Message"
    /\ LET r == on_message(io, Head(queue).msg) IN
         /\ io' = r.io
         /\ pc' = "tend"
         /\ calls' = Append(calls, Call("on_message", Head(queue).msg.body.id,
                                        r.ok, Len(r.io.stdout)))
    /\ queue' = Tail(queue)
    /\ event' = Head(queue)
    /\ UNCHANGED <<now, reader, nread, init_msg, stdout_open, regs, tick_timeout,
                   last_tick, strict, decoded>>
    /\ UNCHANGED world

\* recv_timeout returned Event::Message
RecvMessage ==
    /\ pc = "recv"
    /\ queue # <<>>
    /\ Head(queue).kind = "Message"
    /\ LET r == on_message(io, Head(queue).msg) IN
         /\ io' = r.io
         /\ pc' = IF r.ok THEN "tend" ELSE "failed"
         /\ calls' = Append(calls, Call("on_message", Head(queue).msg.body.id,
                                        r.ok, Len(r.io.stdout)))
    /\ queue' = Tail(queue)
    /\ event' = Head(queue)
    /\ UNCHANGED <<now, reader, nread, init_msg, stdout_open, regs, tick_timeout,
                   last_tick, strict, decoded>>
    /\ UNCHANGED world

\* recv_timeout returned Event::Timer
RecvTimer ==
    /\ pc = "recv"
    /\ queue # <<>>
    /\ Head(queue).kind = "Timer"
    /\ LET r == on_timer(io, Head(queue).timer) IN
         /\ io' = r.io
         /\ pc' = IF r.ok THEN "tend" ELSE "failed"
         /\ calls' = Append(calls, Call("on_timer", Head(queue).timer,
                                        r.ok, Len(r.io.stdout)))
    /\ queue' = Tail(queue)
    /\ event' = Head(queue)
    /\ UNCHANGED <<now, reader, nread, init_msg, stdout_open, regs, tick_timeout,
                   last_tick, strict, decoded>>
    /\ UNCHANGED world

\* EOF taken as one more wake-up of the loop instead of its end
RecvEOF_continue ==
    /\ pc = "recv"
    /\ queue # <<>>
    /\ Head(queue).kind = "EOF"
    /\ pc' = "tend"
    /\ queue' = Tail(queue)
    /\ event' = Head(queue)
    /\ UNCHANGED <<now, reader, nread, init_msg, io, stdout_open, regs,
                   tick_timeout, last_tick, strict, decoded, calls>>
    /\ UNCHANGED world

\* recv_timeout returned Event::EOF: break, join the reader, return Ok
RecvEOF ==
    /\ pc = "recv"
    /\ queue # <<>>
    /\ Head(queue).kind = "EOF"
    /\ pc' = "done"
    /\ queue' = Tail(queue)
    /\ event' = Head(queue)
    /\ UNCHANGED <<now, reader, nread, init_msg, io, stdout_open, regs,
                   tick_timeout, last_tick, strict, decoded, calls>>
    /\ UNCHANGED world

\* recv_timeout timed out: Event::Tick
RecvTick ==
    /\ pc = "recv"
    /\ queue = <<>>
    /\ now - last_tick >= tick_timeout
    /\ pc' = "tend"
    /\ event' = Event("Tick", NoMessage, "")
    /\ UNCHANGED <<now, reader, nread, init_msg, io, stdout_open, queue, regs,
                   tick_timeout, last_tick, strict, decoded, calls>>
    /\ UNCHANGED world

\* the rest of the loop body: the tender pass, the on_rpc_timeout callbacks
\* and the timer registry, or the decrease of the sleep hint
Tend ==
    /\ pc = "tend"
    /\ LET since_last_tick == now - last_tick IN
       IF since_last_tick >= tick_timeout
       THEN \E timedout \in Orders(Expired(io)) :
              LET t == rpc_tend(io, timedout)
                  callbacks_ok == \A i \in DOMAIN t.timedout :
                                      on_rpc_timeout(t.timedout[i])
                  f == fire(regs)
              IN
              /\ io' = t.io
              /\ calls' = IF t.ok
                          THEN calls \o rpc_timeout_calls(t.timedout, Len(t.io.stdout))
                          ELSE calls
              /\ IF t.ok /\ callbacks_ok
                 THEN /\ pc' = "recv"
                      /\ event' = NoEvent
                      /\ regs' = f.regs
                      /\ queue' = queue \o f.events
                      /\ tick_timeout' = Min(Min(t.sleep, TICK_DURATION), f.sleep)
                      /\ last_tick' = now
                 ELSE /\ pc' = "failed"
                      /\ UNCHANGED <<event, regs, queue, tick_timeout, last_tick>>
       ELSE /\ tick_timeout' = checked_sub(tick_timeout, since_last_tick)
            /\ last_tick' = now
            /\ pc' = "recv"
            /\ event' = NoEvent
            /\ UNCHANGED <<io, regs, queue, calls>>
    /\ UNCHANGED <<now, reader, nread, init_msg, stdout_open, strict, decoded>>
    /\ UNCHANGED world

\* ------------------------------------------------------- the environment
\* time passes while the dispatch loop is blocked in recv_timeout
Advance ==
    /\ pc = "recv"
    /\ queue = <<>>
    /\ now - last_tick < tick_timeout
    /\ now + Quantum <= MaxClock * Quantum
    /\ now' = now + Quantum
    /\ UNCHANGED <<pc, reader, nread, init_msg, io, stdout_open, queue, event,
                   regs, tick_timeout, last_tick, strict, decoded, calls>>
    /\ UNCHANGED world

\* the other end of STDOUT goes away, at the latest right before the main
\* thread takes its next step: every later write fails
CloseStdout ==
    /\ \/ pc = "init"
       \/ pc = "recv" /\ (queue # <<>> \/ now - last_tick >= tick_timeout)
    /\ stdout_open
    /\ stdout_open' = FALSE
    /\ UNCHANGED <<now, pc, reader, nread, init_msg, io, queue, event, regs,
                   tick_timeout, last_tick, strict, decoded, calls>>
    /\ UNCHANGED world

Next ==
    \/ Node_init
    \/ Reader
    \/ RecvMessage
    \/ RecvTimer
    \/ RecvEOF
    \/ RecvTick
    \/ Tend
    \/ Advance
    \/ CloseStdout

Spec == Init /\ [][Next]_vars

\* the steps of the main thread in Node::run
Dispatch == RecvMessage \/ RecvTimer \/ RecvEOF \/ RecvTick \/ Tend

\* ------------------------------------------------- the timers on their own
\* The timers a handler may register in Server::init, as <<tag, interval>>:
\* one timer, and a short and a long interval in either order of
\* registration.  on_timer does nothing for these tags.
TimerSets ==
    { << <<"fast", 50>> >>,
      << <<"fast", 50>>, <<"slow", 200>> >>,
      << <<"slow", 200>>, <<"fast", 50>> >> }

\* The state in which Node::run enters its loop after Node::init answered
\* init (msg_id 1, from c0) for a handler that registered the timers of one
\* of TimerSets and whose on_rpc_timeout returns Ok.
InitTimers ==
    LET init == Message("c0", NodeId, 1, None, P0("init", 0))
        cs == ClusterState(NodeId, NodeIds)
        r == rpc_reply_to(IO(0, cs, <<>>, EmptyMap), init, P0("init_ok", 0))
    IN
    /\ stdout_open = TRUE
    /\ now = 0
    /\ pc = "recv"
    /\ reader = "reading"
    /\ nread = 0
    /\ init_msg = init
    /\ io = IO(0, cs, r.io.stdout, EmptyMap)
    /\ queue = <<>>
    /\ event = NoEvent
    /\ regs \in { [i \in DOMAIN t |-> TimerRegistration(t[i][1], t[i][2], 0)] :
                     t \in TimerSets }
    /\ tick_timeout = 0
    /\ last_tick = 0
    /\ strict = FALSE
    /\ decoded = <<>>
    /\ calls = <<>>
    /\ nodes = <<>>
    /\ net = {}

NextTimers ==
    \/ Reader
    \/ RecvMessage
    \/ RecvTimer
    \/ RecvEOF
    \/ RecvTick
    \/ Tend
    \/ Advance

SpecTimers == InitTimers /\ [][NextTimers]_vars

\* ------------------------------------------------- the tender on its own
\* number of requests the handler issues
MaxPending == 2

\* number of deadlines the clock passes in the specifications of the tender
\* callbacks and of the clusters
MaxTicks == 2

\* the requests the handler has issued, by the argument of their payload
Issued ==
    {io.hist[i].request.payload.arg :
        i \in {j \in DOMAIN io.hist : io.hist[j].op = "insert"}}

\* The state in which Node::run enters its loop after Node::init answered
\* init (msg_id 1, from c0), no request issued yet.
InitTend ==
    LET init == Message("c0", NodeId, 1, None, P0("init", 0))
        cs == ClusterState(NodeId, NodeIds)
        r == rpc_reply_to(IO(0, cs, <<>>, EmptyMap), init, P0("init_ok", 0))
    IN
    /\ stdout_open = TRUE
    /\ now = 0
    /\ pc = "recv"
    /\ reader = "reading"
    /\ nread = 0
    /\ init_msg = init
    /\ io = IO(0, cs, r.io.stdout, EmptyMap)
    /\ queue = <<>>
    /\ event = NoEvent
    /\ regs = <<>>
    /\ tick_timeout = 0
    /\ last_tick = 0
    /\ strict = FALSE
    /\ decoded = <<>>
    /\ calls = <<>>
    /\ nodes = <<>>
    /\ net = {}

\* a callback issues its next request through IO::rpc_request or
\* IO::rpc_request_with_retry
TendRequest ==
    /\ Cardinality(Issued) < MaxPending
    /\ \E timeout \in Timeouts, retry \in BOOLEAN :
         LET r == rpc_request(io, "n2", P0("work", Cardinality(Issued) + 1),
                              timeout, retry)
         IN /\ r.ok
            /\ io' = r.io
    /\ pc' = "recv"
    /\ UNCHANGED <<now, reader, nread, init_msg, stdout_open, queue, event, regs,
                   tick_timeout, last_tick, strict, decoded, calls>>
    /\ UNCHANGED world

\* time passes
TendAdvance ==
    /\ now + Quantum <= MaxClock * Quantum
    /\ now' = now + Quantum
    /\ pc' = "recv"
    /\ UNCHANGED <<reader, nread, init_msg, io, stdout_open, queue, event,
                   regs, tick_timeout, last_tick, strict, decoded, calls>>
    /\ UNCHANGED world

\* Node::run calls io.rpc_tend(): one pass; calls keeps the port before the
\* pass and what the pass returned, tick_timeout the sleep hint
TendPass ==
    /\ \E timedout \in Orders(Expired(io)) :
         LET t == rpc_tend(io, timedout)
         IN /\ io' = t.io
            /\ calls' = <<[before |-> io, ok |-> t.ok, timedout |-> t.timedout]>>
            /\ tick_timeout' = t.sleep
    /\ pc' = "tend"
    /\ UNCHANGED <<now, reader, nread, init_msg, stdout_open, queue, event, regs,
                   last_tick, strict, decoded>>
    /\ UNCHANGED world

NextTend ==
    \/ TendRequest
    \/ TendAdvance
    \/ TendPass

SpecTend == InitTend /\ [][NextTend]_vars

\* ------------------------------------- the tender and its callbacks
\* The state in which Node::run enters its loop, for a handler whose
\* on_rpc_timeout returns Ok and for one whose on_rpc_timeout returns Err.
InitCalls ==
    LET init == Message("c0", NodeId, 1, None, P0("init", 0))
        cs == ClusterState(NodeId, NodeIds)
        r == rpc_reply_to(IO(0, cs, <<>>, EmptyMap), init, P0("init_ok", 0))
    IN
    /\ stdout_open = TRUE
    /\ now = 0
    /\ pc = "recv"
    /\ reader = "reading"
    /\ nread = 0
    /\ init_msg = init
    /\ io = IO(0, cs, r.io.stdout, EmptyMap)
    /\ queue = <<>>
    /\ event = NoEvent
    /\ regs = <<>>
    /\ tick_timeout = 0
    /\ last_tick = 0
    /\ strict \in BOOLEAN
    /\ decoded = <<>>
    /\ calls = <<>>
    /\ nodes = <<>>
    /\ net = {}

\* a callback issues a request while the loop runs
CallsRequest == pc = "recv" /\ TendRequest

\* time passes while the loop runs, the entries that have expired having
\* been tended
CallsAdvance ==
    /\ pc = "recv"
    /\ Expired(io) = {}
    /\ now + Quantum <= MaxTicks * Quantum
    /\ now' = now + Quantum
    /\ UNCHANGED <<pc, reader, nread, init_msg, io, stdout_open, queue, event,
                   regs, tick_timeout, last_tick, strict, decoded, calls>>
    /\ UNCHANGED world

\* a callback hands the reply to the pending request k to rpc_mark_completed
CallsComplete ==
    /\ pc = "recv"
    /\ \E k \in DOMAIN io.pending_requests :
         io' = rpc_mark_completed(io, Message(io.pending_requests[k].dst, NodeId,
                                              1, k, P0("ok", 0)))
    /\ UNCHANGED <<now, pc, reader, nread, init_msg, stdout_open, queue, event,
                   regs, tick_timeout, last_tick, strict, decoded, calls>>
    /\ UNCHANGED world

\* Node::run, `let (timeouts, ..) = self.io.rpc_tend()?` and
\* `for r in timeouts { self.handler.on_rpc_timeout(.., r)? }`, in a pass in
\* which some entry has expired
CallsPass ==
    /\ pc = "recv"
    /\ Expired(io) # {}
    /\ \E timedout \in Orders(Expired(io)) :
         LET t == rpc_tend(io, timedout)
             made == rpc_timeout_calls(t.timedout, Len(t.io.stdout))
         IN /\ io' = t.io
            /\ calls' = IF t.ok THEN calls \o made ELSE calls
            /\ pc' = IF t.ok /\ \A i \in DOMAIN made : made[i].ok
                     THEN "recv" ELSE "failed"
    /\ UNCHANGED <<now, reader, nread, init_msg, stdout_open, queue, event, regs,
                   tick_timeout, last_tick, strict, decoded>>
    /\ UNCHANGED world

NextCalls ==
    \/ CallsRequest
    \/ CallsAdvance
    \/ CallsComplete
    \/ CallsPass

SpecCalls == InitCalls /\ [][NextCalls]_vars

\* ======================================================= the workloads
\* A cluster of nodes, each running Node::init and Node::run with the
\* handler of one workload (src/src/bin).  nodes[n] is
\*   [wl, status, io, st]: the workload, "new" (before the handshake), "up"
\*   or "failed" (run returned an error), the outbound port and the
\*   handler's state.
\* A callback runs as one step; what it wrote for other nodes goes to net.
\* The single-node variables keep their initial values.
runtime == <<pc, reader, nread, init_msg, io, stdout_open, queue, event, regs,
             tick_timeout, last_tick, strict, decoded, calls>>

\* the single-node variables in a cluster: as Init leaves them
RuntimeIdle ==
    /\ now = 0
    /\ pc = "init"
    /\ reader = "idle"
    /\ nread = 0
    /\ init_msg = NoMessage
    /\ io = IO(0, ClusterState("", <<>>), <<>>, EmptyMap)
    /\ stdout_open = TRUE
    /\ queue = <<>>
    /\ event = NoEvent
    /\ regs = <<>>
    /\ tick_timeout = 0
    /\ last_tick = 0
    /\ strict = FALSE
    /\ decoded = <<>>
    /\ calls = <<>>

\* number of requests the clients send to one node
MaxRequests == 2

\* ------------------------------------------------------- unique_ids.rs
\* UniqueIdServer::on_message building the id from the sequence number alone
unique_ids_on_message_seq(cluster_state, st, io_, input) ==
    LET payload == input.body.payload IN
    CASE payload.type = "generate" ->
           LET id == "n-" \o ToString(io_.seq)
               r == rpc_reply_to(io_, input, [type |-> "generate_ok", id |-> id])
           IN [st |-> st, io |-> r.io, ok |-> r.ok]
      [] OTHER -> [st |-> st, io |-> io_, ok |-> FALSE]

\* UniqueIdServer::on_message: returns [st, io, ok]
unique_ids_on_message(cluster_state, st, io_, input) ==
    LET payload == input.body.payload IN
    CASE payload.type = "generate" ->
           LET id == cluster_state.node_id \o "-" \o ToString(io_.seq)
               r == rpc_reply_to(io_, input, [type |-> "generate_ok", id |-> id])
           IN [st |-> st, io |-> r.io, ok |-> r.ok]
      [] OTHER -> [st |-> st, io |-> io_, ok |-> FALSE]

\* ------------------------------------------------------------ helpers
\* IO::rpc_still_pending(message): the reply answers a request that is still
\* in the pending table
rpc_still_pending(io_, message) ==
    /\ message.body.in_reply_to # None
    /\ message.body.in_reply_to \in DOMAIN io_.pending_requests

\* the result of a callback
Ret(st, io_, ok) == [st |-> st, io |-> io_, ok |-> ok]

\* str.parse::<usize>() of a key or of the digits of a node id: None if
\* the text is not a number
ParseInt(str) ==
    CASE str = "0" -> 0 [] str = "1" -> 1 [] str = "2" -> 2 [] str = "3" -> 3
      [] OTHER -> None

\* node_id[1..]
NodeDigits(node_id) ==
    CASE node_id = "n0" -> "0" [] node_id = "n1" -> "1" [] node_id = "n2" -> "2"
      [] node_id = "n3" -> "3" [] OTHER -> "?"

\* Option<ForwardedFor>::None
NoForward == <<>>

\* rpc_request_with_retry to each node of dsts (a sequence), in order:
\* returns [io, ok], stopping at the first error
RECURSIVE request_each(_, _, _, _)
request_each(io_, dsts, payload, timeout) ==
    IF dsts = <<>> THEN [io |-> io_, ok |-> TRUE]
    ELSE LET r == rpc_request_with_retry(io_, Head(dsts), payload, timeout)
         IN IF r.ok THEN request_each(r.io, Tail(dsts), payload, timeout)
            ELSE [io |-> r.io, ok |-> FALSE]

\* ------------------------------------------------- kafka-multi-node.rs
\* Log::read_from takes at most this many records
ReadLimit == 50
ForwardTimeout == 250

\* KafkaServer { logs, offset_store, my_id }
KafkaServer(logs, offset_store, my_id) ==
    [logs |-> logs, offset_store |-> offset_store, my_id |-> my_id]

\* KafkaServer::init
kafka_init(cluster_state) ==
    LET my_id == ParseInt(NodeDigits(cluster_state.node_id))
    IN [st |-> KafkaServer(EmptyMap, EmptyMap, my_id), ok |-> my_id # None]

\* Log::read_from: [ok, records]; the slice panics when offset is past the end
read_from(records, offset) ==
    IF offset > Len(records) THEN [ok |-> FALSE, records |-> <<>>]
    ELSE LET rest == SubSeq(records, offset + 1, Len(records))
         IN [ok |-> TRUE,
             records |-> SubSeq(rest, 1, Min(Len(rest), ReadLimit))]

\* the records of key in logs (Entry::Vacant: a new Log)
LogOf(logs, key) == IF key \in DOMAIN logs THEN logs[key] ELSE <<>>

\* the arm Payload::Send naming the forwarding node, not the client, in
\* forwarded_for
kafka_send_self(cluster_state, st, io_, input) ==
    LET p == input.body.payload
        int_key == ParseInt(p.key)
        leader == int_key % Len(cluster_state.node_ids)
    IN
    IF int_key = None THEN Ret(st, io_, FALSE)
    ELSE IF leader = st.my_id
    THEN LET records == LogOf(st.logs, p.key)
             offset == Len(records)
             logs == MapInsert(st.logs, p.key, Append(records, <<offset, p.msg>>))
             r == rpc_reply_to(io_, input,
                     [type |-> "send_ok", offset |-> offset,
                      forwarded_for |-> p.forwarded_for])
         IN Ret([st EXCEPT !.logs = logs], r.io, r.ok)
    ELSE IF input.body.id = None THEN Ret(st, io_, FALSE)       \* unwrap()
    ELSE LET send_ == [type |-> "send", key |-> p.key, msg |-> p.msg,
                       forwarded_for |-> <<cluster_state.node_id, input.body.id>>]
             r == rpc_request_with_retry(io_, "n" \o ToString(leader), send_,
                                         ForwardTimeout)
         IN Ret(st, r.io, r.ok)

\* the arm Payload::Send taking the offset of the last record, not the
\* length of the log, for the new record
kafka_send_last(cluster_state, st, io_, input) ==
    LET p == input.body.payload
        int_key == ParseInt(p.key)
        leader == int_key % Len(cluster_state.node_ids)
    IN
    IF int_key = None THEN Ret(st, io_, FALSE)
    ELSE IF leader = st.my_id
    THEN LET records == LogOf(st.logs, p.key)
             offset == IF records = <<>> THEN 0 ELSE records[Len(records)][1]
             logs == MapInsert(st.logs, p.key, Append(records, <<offset, p.msg>>))
             r == rpc_reply_to(io_, input,
                     [type |-> "send_ok", offset |-> offset,
                      forwarded_for |-> p.forwarded_for])
         IN Ret([st EXCEPT !.logs = logs], r.io, r.ok)
    ELSE IF input.body.id = None THEN Ret(st, io_, FALSE)       \* unwrap()
    ELSE LET send_ == [type |-> "send", key |-> p.key, msg |-> p.msg,
                       forwarded_for |-> <<input.src, input.body.id>>]
             r == rpc_request_with_retry(io_, "n" \o ToString(leader), send_,
                                         ForwardTimeout)
         IN Ret(st, r.io, r.ok)

\* on_message, arm Payload::Send
kafka_send(cluster_state, st, io_, input) ==
    LET p == input.body.payload
        int_key == ParseInt(p.key)
        leader == int_key % Len(cluster_state.node_ids)
    IN
    IF int_key = None THEN Ret(st, io_, FALSE)
    ELSE IF leader = st.my_id
    THEN LET records == LogOf(st.logs, p.key)
             offset == Len(records)
             logs == MapInsert(st.logs, p.key, Append(records, <<offset, p.msg>>))
             r == rpc_reply_to(io_, input,
                     [type |-> "send_ok", offset |-> offset,
                      forwarded_for |-> p.forwarded_for])
         IN Ret([st EXCEPT !.logs = logs], r.io, r.ok)
    ELSE IF input.body.id = None THEN Ret(st, io_, FALSE)       \* unwrap()
    ELSE LET send_ == [type |-> "send", key |-> p.key, msg |-> p.msg,
                       forwarded_for |-> <<input.src, input.body.id>>]
             r == rpc_request_with_retry(io_, "n" \o ToString(leader), send_,
                                         ForwardTimeout)
         IN Ret(st, r.io, r.ok)

\* the arm Payload::SendOk taken whether or not the request is still pending
kafka_send_ok_unguarded(cluster_state, st, io_, input) ==
    LET p == input.body.payload IN
    IF p.forwarded_for = NoForward
    THEN [taken |-> TRUE] @@ Ret(st, io_, FALSE)
    ELSE LET r == send(io_, p.forwarded_for[1], p.forwarded_for[2],
                       [type |-> "send_ok", offset |-> p.offset,
                        forwarded_for |-> NoForward])
         IN [taken |-> TRUE] @@
            (IF r.ok THEN Ret(st, rpc_mark_completed(r.io, input), TRUE)
             ELSE Ret(st, r.io, FALSE))

\* on_message, arm Payload::SendOk if io.rpc_still_pending(&input); the
\* result has taken |-> FALSE when the guard fails and the match goes on
kafka_send_ok(cluster_state, st, io_, input) ==
    LET p == input.body.payload IN
    IF ~rpc_still_pending(io_, input) THEN [taken |-> FALSE]
    ELSE IF p.forwarded_for = NoForward                         \* unwrap()
    THEN [taken |-> TRUE] @@ Ret(st, io_, FALSE)
    ELSE LET r == send(io_, p.forwarded_for[1], p.forwarded_for[2],
                       [type |-> "send_ok", offset |-> p.offset,
                        forwarded_for |-> NoForward])
         IN [taken |-> TRUE] @@
            (IF r.ok THEN Ret(st, rpc_mark_completed(r.io, input), TRUE)
             ELSE Ret(st, r.io, FALSE))

\* the records read for a poll: [ok, msgs]
poll_records(logs, offsets) ==
    LET read(key) == IF key \in DOMAIN logs
                     THEN read_from(logs[key], offsets[key])
                     ELSE [ok |-> TRUE, records |-> <<>>]
    IN [ok |-> \A key \in DOMAIN offsets : read(key).ok,
        msgs |-> [key \in DOMAIN offsets |-> read(key).records]]

\* on_message, arm Payload::Poll
kafka_poll(cluster_state, st, io_, input) ==
    LET m == poll_records(st.logs, input.body.payload.offsets) IN
    IF ~m.ok THEN Ret(st, io_, FALSE)
    ELSE LET r == rpc_reply_to(io_, input, [type |-> "poll_ok", msgs |-> m.msgs])
         IN Ret(st, r.io, r.ok)

\* the offset store after commit_offsets
commit(offset_store, offsets) ==
    [key \in DOMAIN offset_store \cup DOMAIN offsets |->
        IF key \notin DOMAIN offsets THEN offset_store[key]
        ELSE IF key \notin DOMAIN offset_store THEN offsets[key]
        ELSE IF offset_store[key] >= offsets[key] THEN offset_store[key]
        ELSE offsets[key]]

\* on_message, arm Payload::CommitOffsets
kafka_commit_offsets(cluster_state, st, io_, input) ==
    LET offsets == input.body.payload.offsets
        st1 == [st EXCEPT !.offset_store = commit(@, offsets)]
        others == SelectSeq(cluster_state.node_ids,
                            LAMBDA n : n # cluster_state.node_id /\ n # input.src)
        q == request_each(io_, others,
                          [type |-> "commit_offsets", offsets |-> offsets],
                          ForwardTimeout)
    IN IF ~q.ok THEN Ret(st1, q.io, FALSE)
       ELSE LET r == rpc_reply_to(q.io, input, [type |-> "commit_offsets_ok"])
            IN Ret(st1, r.io, r.ok)

\* on_message, arm Payload::CommitOffsetsOk if io.rpc_still_pending(&input)
kafka_commit_offsets_ok(cluster_state, st, io_, input) ==
    IF ~rpc_still_pending(io_, input) THEN [taken |-> FALSE]
    ELSE [taken |-> TRUE] @@ Ret(st, rpc_mark_completed(io_, input), TRUE)

\* on_message, arm Payload::ListCommittedOffsets
kafka_list_committed_offsets(cluster_state, st, io_, input) ==
    LET keys == input.body.payload.keys
        found == {keys[i] : i \in DOMAIN keys} \cap DOMAIN st.offset_store
        r == rpc_reply_to(io_, input,
                [type |-> "list_committed_offsets_ok",
                 offsets |-> [k \in found |-> st.offset_store[k]]])
    IN Ret(st, r.io, r.ok)

\* the keys this node leads among the keys of its logs
Led(cluster_state, st) ==
    {k \in DOMAIN st.logs :
        /\ ParseInt(k) # None
        /\ ParseInt(k) % Len(cluster_state.node_ids) = st.my_id}

\* on_message, arm Payload::ReplicaPoll
kafka_replica_poll(cluster_state, st, io_, input) ==
    LET offsets == input.body.payload.offsets
        read(k) == read_from(st.logs[k],
                             IF k \in DOMAIN offsets THEN offsets[k] ELSE 0)
        led == Led(cluster_state, st)
    IN IF \E k \in led : ~read(k).ok THEN Ret(st, io_, FALSE)
       ELSE LET r == rpc_reply_to(io_, input,
                        [type |-> "replica_poll_ok",
                         msgs |-> [k \in led |-> read(k).records]])
            IN Ret(st, r.io, r.ok)

\* on_message, arm Payload::ReplicaPollOk if io.rpc_still_pending(&input)
kafka_replica_poll_ok(cluster_state, st, io_, input) ==
    LET msgs == input.body.payload.msgs
        logs == [l \in DOMAIN st.logs \cup DOMAIN msgs |->
                    IF l \in DOMAIN msgs THEN LogOf(st.logs, l) \o msgs[l]
                    ELSE st.logs[l]]
    IN IF ~rpc_still_pending(io_, input) THEN [taken |-> FALSE]
       ELSE [taken |-> TRUE] @@
            Ret([st EXCEPT !.logs = logs], rpc_mark_completed(io_, input), TRUE)

\* the last two arms of a match over replies: a late response is ignored,
\* anything else is an unexpected payload
late_or_bail(st, io_, input) ==
    IF input.body.in_reply_to # None /\ ~rpc_still_pending(io_, input)
    THEN Ret(st, io_, TRUE)
    ELSE Ret(st, io_, FALSE)

\* the result of a guarded arm, or of the rest of the match
OrElse(arm, rest) == IF arm.taken THEN Ret(arm.st, arm.io, arm.ok) ELSE rest

\* KafkaServer::on_message
kafka_on_message(cluster_state, st, io_, input) ==
    LET type == input.body.payload.type
        rest == late_or_bail(st, io_, input)
    IN
    CASE type = "send" -> kafka_send(cluster_state, st, io_, input)
      [] type = "send_ok" ->
           OrElse(kafka_send_ok(cluster_state, st, io_, input), rest)
      [] type = "poll" -> kafka_poll(cluster_state, st, io_, input)
      [] type = "commit_offsets" ->
           kafka_commit_offsets(cluster_state, st, io_, input)
      [] type = "commit_offsets_ok" ->
           OrElse(kafka_commit_offsets_ok(cluster_state, st, io_, input), rest)
      [] type = "list_committed_offsets" ->
           kafka_list_committed_offsets(cluster_state, st, io_, input)
      [] type = "replica_poll" -> kafka_replica_poll(cluster_state, st, io_, input)
      [] type = "replica_poll_ok" ->
           OrElse(kafka_replica_poll_ok(cluster_state, st, io_, input), rest)
      [] OTHER -> rest

\* KafkaServer::on_rpc_timeout: bail!
kafka_on_rpc_timeout(st, request) == [st |-> st, ok |-> FALSE]

\* the timeout of a replica_poll
ReplicaPollTimeout == 5000

\* Log::current_offset: the offset of the last record, 0 for an empty log
current_offset(records) ==
    IF records = <<>> THEN 0 ELSE records[Len(records)][1]

\* the requests on_timer collects into its HashMap: group_by puts together
\* the consecutive keys of one leader, and of several groups of one leader
\* the last one is kept; keys are the keys of other leaders, in the order
\* in which the HashMap of the logs is iterated
poll_requests(cluster_state, st, keys) ==
    LET leader(i) == ParseInt(keys[i]) % Len(cluster_state.node_ids)
        last(i) == \A j \in DOMAIN keys :
                      (j > i /\ leader(j) = leader(i))
                         => \A x \in i..j : leader(x) = leader(i)
        kept(l) == {keys[i] : i \in {j \in DOMAIN keys : leader(j) = l /\ last(j)}}
    IN [node \in {"n" \o ToString(leader(i)) : i \in DOMAIN keys} |->
          [type |-> "replica_poll",
           offsets |-> [k \in kept(ParseInt(NodeDigits(node))) |->
                          current_offset(st.logs[k]) + 1]]]

\* rpc_request of a replica_poll to each node of dsts, in order: [io, ok],
\* stopping at the first error
RECURSIVE poll_each(_, _, _)
poll_each(io_, dsts, requests) ==
    IF dsts = <<>> THEN [io |-> io_, ok |-> TRUE]
    ELSE LET node == Head(dsts)
             request == IF node \in DOMAIN requests THEN requests[node]
                        ELSE [type |-> "replica_poll", offsets |-> EmptyMap]
             r == rpc_request(io_, node, request, ReplicaPollTimeout, FALSE)
         IN IF r.ok THEN poll_each(r.io, Tail(dsts), requests)
            ELSE [io |-> r.io, ok |-> FALSE]

\* KafkaServer::on_timer, Timer::ReplicaPoll; order is the order in which
\* the HashMap of the logs is iterated
kafka_on_timer(cluster_state, st, io_, order) ==
    LET foreign == SelectSeq(order,
                      LAMBDA k : /\ ParseInt(k) # None
                                 /\ ParseInt(k) % Len(cluster_state.node_ids) # st.my_id)
        others == SelectSeq(cluster_state.node_ids,
                            LAMBDA n : n # cluster_state.node_id)
        q == poll_each(io_, others, poll_requests(cluster_state, st, foreign))
    IN Ret(st, q.io, q.ok)

\* ------------------------------------------------ kafka-single-node.rs
\* Log::read_from takes at most this many records
ReadLimit1 == 10

\* Log::read_from: [ok, records]; the slice panics when offset is past the end
read_from1(records, offset) ==
    IF offset > Len(records) THEN [ok |-> FALSE, records |-> <<>>]
    ELSE LET rest == SubSeq(records, offset + 1, Len(records))
         IN [ok |-> TRUE,
             records |-> SubSeq(rest, 1, Min(Len(rest), ReadLimit1))]

\* KafkaServer::init
kafka1_init(cluster_state) ==
    [st |-> [logs |-> EmptyMap, offset_store |-> EmptyMap], ok |-> TRUE]

\* on_message, arm Payload::Send
kafka1_send(cluster_state, st, io_, input) ==
    LET p == input.body.payload
        records == LogOf(st.logs, p.key)
        offset == Len(records)
        logs == MapInsert(st.logs, p.key, Append(records, <<offset, p.msg>>))
        r == rpc_reply_to(io_, input, [type |-> "send_ok", offset |-> offset])
    IN Ret([st EXCEPT !.logs = logs], r.io, r.ok)

\* the records read for a poll: [ok, msgs]
poll_records1(logs, offsets) ==
    LET read(key) == IF key \in DOMAIN logs
                     THEN read_from1(logs[key], offsets[key])
                     ELSE [ok |-> TRUE, records |-> <<>>]
    IN [ok |-> \A key \in DOMAIN offsets : read(key).ok,
        msgs |-> [key \in DOMAIN offsets |-> read(key).records]]

\* on_message, arm Payload::Poll
kafka1_poll(cluster_state, st, io_, input) ==
    LET m == poll_records1(st.logs, input.body.payload.offsets) IN
    IF ~m.ok THEN Ret(st, io_, FALSE)
    ELSE LET r == rpc_reply_to(io_, input, [type |-> "poll_ok", msgs |-> m.msgs])
         IN Ret(st, r.io, r.ok)

\* the offset store after commit_offsets: offset_store.insert(k, v)
commit1(offset_store, offsets) ==
    [key \in DOMAIN offset_store \cup DOMAIN offsets |->
        IF key \in DOMAIN offsets THEN offsets[key] ELSE offset_store[key]]

\* on_message, arm Payload::CommitOffsets
kafka1_commit_offsets(cluster_state, st, io_, input) ==
    LET st1 == [st EXCEPT !.offset_store = commit1(@, input.body.payload.offsets)]
        r == rpc_reply_to(io_, input, [type |-> "commit_offsets_ok"])
    IN Ret(st1, r.io, r.ok)

\* KafkaServer::on_message; the arms of the replies are todo!()
kafka1_on_message(cluster_state, st, io_, input) ==
    LET type == input.body.payload.type IN
    CASE type = "send" -> kafka1_send(cluster_state, st, io_, input)
      [] type = "poll" -> kafka1_poll(cluster_state, st, io_, input)
      [] type = "commit_offsets" ->
           kafka1_commit_offsets(cluster_state, st, io_, input)
      [] type = "list_committed_offsets" ->
           kafka_list_committed_offsets(cluster_state, st, io_, input)
      [] OTHER -> Ret(st, io_, FALSE)

\* --------------------------------------------------- txn-kv-two-node.rs
ReplicateTimeout == 500

\* Op::Read { key, value } / Op::Write { key, value }
Op(op, key, value) == [op |-> op, key |-> key, value |-> value]

\* Op as it is on the wire, ["r", key, value] / ["w", key, value]; the
\* derived Deserialize takes the first element as the tag and null as None
op_deserialize(json) == Op(json[1], json[2], json[3])

\* impl Serialize for Op: a sequence of three elements
op_serialize(op) == <<op.op, op.key, op.value>>

\* the loop `for t in txn` with a read that does not see the writes made
\* earlier in the same txn (it finds null for their keys)
RECURSIVE txn_loop_stale(_, _, _, _)
txn_loop_stale(txn, store, result, writes) ==
    IF txn = <<>> THEN [store |-> store, result |-> result, writes |-> writes]
    ELSE LET t == Head(txn) IN
         IF t.op = "r"
         THEN txn_loop_stale(Tail(txn), store,
                       Append(result,
                              Op("r", t.key, IF t.key \in DOMAIN store
                                                /\ \A i \in DOMAIN writes :
                                                      writes[i].key # t.key
                                             THEN store[t.key] ELSE None)),
                       writes)
         ELSE txn_loop_stale(Tail(txn), MapInsert(store, t.key, t.value),
                       Append(result, t), Append(writes, t))

\* the loop `for t in txn`: returns [store, result, writes]
RECURSIVE txn_loop(_, _, _, _)
txn_loop(txn, store, result, writes) ==
    IF txn = <<>> THEN [store |-> store, result |-> result, writes |-> writes]
    ELSE LET t == Head(txn) IN
         IF t.op = "r"
         THEN txn_loop(Tail(txn), store,
                       Append(result,
                              Op("r", t.key, IF t.key \in DOMAIN store
                                             THEN store[t.key] ELSE None)),
                       writes)
         ELSE txn_loop(Tail(txn), MapInsert(store, t.key, t.value),
                       Append(result, t), Append(writes, t))

\* on_message, arm Payload::Txn
txn_txn(cluster_state, st, io_, input) ==
    LET l == txn_loop(input.body.payload.txn, st.store, <<>>, <<>>)
        st1 == [st EXCEPT !.store = l.store]
        others == SelectSeq(cluster_state.node_ids,
                            LAMBDA n : n # cluster_state.node_id)
        q == IF l.writes # <<>>
             THEN request_each(io_, others,
                               [type |-> "replicate", ops |-> l.writes],
                               ReplicateTimeout)
             ELSE [io |-> io_, ok |-> TRUE]
    IN IF ~q.ok THEN Ret(st1, q.io, FALSE)
       ELSE LET r == rpc_reply_to(q.io, input, [type |-> "txn_ok", txn |-> l.result])
            IN Ret(st1, r.io, r.ok)

\* the store after the writes of ops
RECURSIVE apply_writes(_, _)
apply_writes(store, ops) ==
    IF ops = <<>> THEN store
    ELSE apply_writes(IF Head(ops).op = "w"
                      THEN MapInsert(store, Head(ops).key, Head(ops).value)
                      ELSE store,
                      Tail(ops))

\* on_message, arm Payload::Replicate if !io.rpc_still_pending(&input)
txn_replicate(cluster_state, st, io_, input) ==
    IF rpc_still_pending(io_, input) THEN [taken |-> FALSE]
    ELSE LET r == rpc_reply_to(io_, input, [type |-> "replicate_ok"])
         IN [taken |-> TRUE] @@
            Ret([st EXCEPT !.store = apply_writes(@, input.body.payload.ops)],
                r.io, r.ok)

\* TxnKVServer::on_message
txn_on_message(cluster_state, st, io_, input) ==
    LET type == input.body.payload.type
        rest == late_or_bail(st, io_, input)
    IN
    CASE type = "txn" -> txn_txn(cluster_state, st, io_, input)
      [] type = "replicate" ->
           OrElse(txn_replicate(cluster_state, st, io_, input), rest)
      [] type = "replicate_ok" -> Ret(st, rpc_mark_completed(io_, input), TRUE)
      [] OTHER -> rest

\* TxnKVServer::on_rpc_timeout
txn_on_rpc_timeout(st, request) == [st |-> st, ok |-> TRUE]

\* ------------------------------------------------ txn-kv-single-node.rs
\* txn.iter().map(..).collect(): returns [store, result]
RECURSIVE txn1_map(_, _, _)
txn1_map(txn, store, result) ==
    IF txn = <<>> THEN [store |-> store, result |-> result]
    ELSE LET t == Head(txn) IN
         IF t.op = "r"
         THEN txn1_map(Tail(txn), store,
                       Append(result,
                              Op("r", t.key, IF t.key \in DOMAIN store
                                             THEN store[t.key] ELSE None)))
         ELSE txn1_map(Tail(txn), MapInsert(store, t.key, t.value),
                       Append(result, Op("w", t.key, t.value)))

\* TxnKVServer::on_message
txn1_on_message(cluster_state, st, io_, input) ==
    IF input.body.payload.type = "txn"
    THEN LET l == txn1_map(input.body.payload.txn, st.store, <<>>)
             r == rpc_reply_to(io_, input, [type |-> "txn_ok", txn |-> l.result])
         IN Ret([st EXCEPT !.store = l.store], r.io, r.ok)
    ELSE Ret(st, io_, FALSE)                   \* txn_ok: bail!

\* ------------------------------------------------------ broadcast-tree.rs
BroadcastTimeout == 400

\* (0..node_ids.len()).map(|n| format!("n{}", n))
TopologyNodes(cluster_state) ==
    [i \in 1..Len(cluster_state.node_ids) |-> "n" \o ToString(i - 1)]

SeqToSet(seq) == {seq[i] : i \in DOMAIN seq}

\* BroadcastServer { messages, seen, neighbours }
BroadcastServer(cluster_state, neighbours) ==
    [messages |-> {},
     seen |-> [n \in SeqToSet(cluster_state.node_ids) |-> {}],
     neighbours |-> neighbours]

\* BroadcastServer::init: a star around the first node; topology[node_id]
\* panics for a node id that is not one of the generated names
tree_init(cluster_state) ==
    LET nodes_ == TopologyNodes(cluster_state)
        root == Head(nodes_)
        children == Tail(nodes_)
        me == cluster_state.node_id
    IN IF nodes_ = <<>> \/ me \notin SeqToSet(nodes_)
       THEN [st |-> <<>>, ok |-> FALSE]
       ELSE [st |-> BroadcastServer(cluster_state,
                                    IF me = root THEN children ELSE <<root>>),
             ok |-> TRUE]

\* the arm Payload::Broadcast forwarding the value to its first neighbour only
tree_broadcast_first(cluster_state, st, io_, input) ==
    LET message == input.body.payload.message
        fresh == message \notin st.messages
        st1 == [st EXCEPT !.messages = @ \cup {message}]
        dsts == SelectSeq(st.neighbours, LAMBDA n : n # input.src)
        q == IF fresh
             THEN request_each(io_, IF dsts = <<>> THEN dsts ELSE <<Head(dsts)>>,
                               [type |-> "broadcast", message |-> message],
                               BroadcastTimeout)
             ELSE [io |-> io_, ok |-> TRUE]
    IN IF ~q.ok THEN Ret(st1, q.io, FALSE)
       ELSE LET r == rpc_reply_to(q.io, input, [type |-> "broadcast_ok"])
            IN Ret(st1, r.io, r.ok)

\* on_message, arm Payload::Broadcast
tree_broadcast(cluster_state, st, io_, input) ==
    LET message == input.body.payload.message
        fresh == message \notin st.messages
        st1 == [st EXCEPT !.messages = @ \cup {message}]
        dsts == SelectSeq(st.neighbours, LAMBDA n : n # input.src)
        q == IF fresh
             THEN request_each(io_, dsts,
                               [type |-> "broadcast", message |-> message],
                               BroadcastTimeout)
             ELSE [io |-> io_, ok |-> TRUE]
    IN IF ~q.ok THEN Ret(st1, q.io, FALSE)
       ELSE LET r == rpc_reply_to(q.io, input, [type |-> "broadcast_ok"])
            IN Ret(st1, r.io, r.ok)

\* on_message, arm Payload::Read
broadcast_read(st, io_, input) ==
    LET r == rpc_reply_to(io_, input, [type |-> "read_ok", messages |-> st.messages])
    IN Ret(st, r.io, r.ok)

\* on_message, arm Payload::Gossip
broadcast_gossip(st, io_, input) ==
    LET new == input.body.payload.messages \ st.messages IN
    IF input.src \notin DOMAIN st.seen
    THEN Ret([st EXCEPT !.messages = @ \cup new], io_, FALSE)   \* expect()
    ELSE Ret([st EXCEPT !.messages = @ \cup new,
                        !.seen = [@ EXCEPT ![input.src] = @ \cup new]],
             io_, TRUE)

\* on_message, arm Payload::Topology
broadcast_topology(st, io_, input) ==
    LET r == rpc_reply_to(io_, input, [type |-> "topology_ok"])
    IN Ret(st, r.io, r.ok)

\* BroadcastServer::on_message
tree_on_message(cluster_state, st, io_, input) ==
    LET type == input.body.payload.type IN
    CASE type = "topology" -> broadcast_topology(st, io_, input)
      [] type = "broadcast" -> tree_broadcast(cluster_state, st, io_, input)
      [] type = "broadcast_ok" -> Ret(st, rpc_mark_completed(io_, input), TRUE)
      [] type = "read" -> broadcast_read(st, io_, input)
      [] type = "gossip" -> broadcast_gossip(st, io_, input)
      [] OTHER -> Ret(st, io_, FALSE)         \* topology_ok, read_ok: bail!

\* ------------------------------------------------ broadcast-tree-batch.rs
\* Option<HashSet<usize>>
NoBatch == [some |-> FALSE, set |-> {}]
SomeBatch(b) == [some |-> TRUE, set |-> b]

\* BroadcastServer::init: two roots linked to each other, the other nodes
\* split between them; the second nodes.remove(0) panics on one node
batch_init(cluster_state) ==
    LET nodes_ == TopologyNodes(cluster_state)
        me == cluster_state.node_id
    IN IF Len(nodes_) < 2 \/ me \notin SeqToSet(nodes_)
       THEN [st |-> <<>>, ok |-> FALSE]
       ELSE LET root1 == nodes_[1]
                root2 == nodes_[2]
                rest == SubSeq(nodes_, 3, Len(nodes_))
                mid == Len(rest) \div 2
                children1 == SubSeq(rest, 1, mid)
                children2 == SubSeq(rest, mid + 1, Len(rest))
                neighbours ==
                    CASE me = root1 -> Append(children1, root2)
                      [] me = root2 -> Append(children2, root1)
                      [] me \in SeqToSet(children1) -> <<root1>>
                      [] OTHER -> <<root2>>
            IN [st |-> BroadcastServer(cluster_state, neighbours) @@ [outbox |-> {}],
                ok |-> TRUE]

\* the arm Payload::Broadcast merging a broadcast that carries both a
\* message and a batch
batch_broadcast_merge(st, io_, input) ==
    LET p == input.body.payload
        r == rpc_reply_to(io_, input, [type |-> "broadcast_ok"])
        got == (IF p.message # None THEN {p.message} ELSE {})
               \cup (IF p.batch.some THEN p.batch.set ELSE {})
    IN IF p.message = None /\ ~p.batch.some THEN Ret(st, io_, FALSE)
       ELSE Ret([st EXCEPT !.messages = @ \cup got, !.outbox = @ \cup got],
                r.io, r.ok)

\* on_message, arm Payload::Broadcast
batch_broadcast(st, io_, input) ==
    LET p == input.body.payload
        r == rpc_reply_to(io_, input, [type |-> "broadcast_ok"])
    IN
    CASE p.message # None /\ ~p.batch.some ->
           Ret([st EXCEPT !.messages = @ \cup {p.message},
                          !.outbox = IF p.message \in st.messages THEN @
                                     ELSE @ \cup {p.message}],
               r.io, r.ok)
      [] p.message = None /\ p.batch.some ->
           Ret([st EXCEPT !.messages = @ \cup p.batch.set,
                          !.outbox = @ \cup p.batch.set],
               r.io, r.ok)
      [] OTHER -> Ret(st, io_, FALSE)          \* bail! / todo!

\* BroadcastServer::on_message
batch_on_message(cluster_state, st, io_, input) ==
    LET type == input.body.payload.type IN
    CASE type = "topology" -> broadcast_topology(st, io_, input)
      [] type = "broadcast" -> batch_broadcast(st, io_, input)
      [] type = "broadcast_ok" -> Ret(st, rpc_mark_completed(io_, input), TRUE)
      [] type = "read" -> broadcast_read(st, io_, input)
      [] type = "gossip" -> broadcast_gossip(st, io_, input)
      [] OTHER -> Ret(st, io_, FALSE)

\* BroadcastServer::on_timer, Timer::Gossip
batch_on_timer(cluster_state, st, io_, timer) ==
    IF st.outbox = {} THEN Ret(st, io_, TRUE)
    ELSE LET q == request_each(io_, st.neighbours,
                               [type |-> "broadcast", message |-> None,
                                batch |-> SomeBatch(st.outbox)],
                               BroadcastTimeout)
         IN IF q.ok THEN Ret([st EXCEPT !.outbox = {}], q.io, TRUE)
            ELSE Ret(st, q.io, FALSE)

\* ----------------------------------------------------------- g-counter.rs
GReplicateTimeout == 500

\* GCounter::add: the pair (id, value) joins the set kept for node
gcounter_add(node_counters, node, id, value) ==
    MapInsert(node_counters, node,
              (IF node \in DOMAIN node_counters THEN node_counters[node] ELSE {})
                 \cup {<<id, value>>})

\* the sum of the values of a set of pairs (id, value)
RECURSIVE SumValues(_)
SumValues(pairs) ==
    IF pairs = {} THEN 0
    ELSE LET p == CHOOSE x \in pairs : TRUE IN p[2] + SumValues(pairs \ {p})

\* GCounter::total: every set flattened, the values summed
RECURSIVE gcounter_total(_)
gcounter_total(node_counters) ==
    IF DOMAIN node_counters = {} THEN 0
    ELSE LET k == CHOOSE x \in DOMAIN node_counters : TRUE
         IN SumValues(node_counters[k]) + gcounter_total(MapRemove(node_counters, k))

\* on_message, arm Payload::Add
gcounter_add_arm(cluster_state, st, io_, input) ==
    IF input.body.id = None THEN Ret(st, io_, FALSE)
    ELSE LET id == input.body.id
             delta == input.body.payload.delta
             st1 == [st EXCEPT !.node_counters = gcounter_add(@, input.src, id, delta)]
             others == SelectSeq(cluster_state.node_ids,
                                 LAMBDA n : n # cluster_state.node_id /\ n # input.src)
             q == request_each(io_, others,
                               [type |-> "replicate", values |-> {<<id, delta>>}],
                               GReplicateTimeout)
         IN IF ~q.ok THEN Ret(st1, q.io, FALSE)
            ELSE LET r == rpc_reply_to(q.io, input, [type |-> "add_ok"])
                 IN Ret(st1, r.io, r.ok)

\* the loop `for v in values` of the arm Payload::Replicate
RECURSIVE gcounter_add_all(_, _, _)
gcounter_add_all(node_counters, node, values) ==
    IF values = {} THEN node_counters
    ELSE LET v == CHOOSE x \in values : TRUE
         IN gcounter_add_all(gcounter_add(node_counters, node, v[1], v[2]),
                             node, values \ {v})

\* on_message, arm Payload::Replicate
gcounter_replicate(st, io_, input) ==
    Ret([st EXCEPT !.node_counters =
                      gcounter_add_all(@, input.src, input.body.payload.values)],
        io_, TRUE)

\* on_message, arm Payload::Read
gcounter_read(st, io_, input) ==
    LET r == rpc_reply_to(io_, input,
                          [type |-> "read_ok", value |-> gcounter_total(st.node_counters)])
    IN Ret(st, r.io, r.ok)

\* GCounterServer::on_message
gcounter_on_message(cluster_state, st, io_, input) ==
    LET type == input.body.payload.type IN
    CASE type = "add" -> gcounter_add_arm(cluster_state, st, io_, input)
      [] type = "add_ok" -> Ret(st, io_, TRUE)
      [] type = "read" -> gcounter_read(st, io_, input)
      [] type = "replicate" -> gcounter_replicate(st, io_, input)
      [] type = "replicate_ok" -> Ret(st, rpc_mark_completed(io_, input), TRUE)
      [] OTHER -> Ret(st, io_, FALSE)          \* read_ok: bail!

\* ------------------------------------------------ the handler of workload wl
\* Server::init: returns [st, ok]
wl_init(wl, cluster_state) ==
    CASE wl = "kafka" -> kafka_init(cluster_state)
      [] wl = "kafka1" -> kafka1_init(cluster_state)
      [] wl = "tree" -> tree_init(cluster_state)
      [] wl = "gcounter" -> [st |-> [node_counters |-> EmptyMap], ok |-> TRUE]
      [] wl = "batch" -> batch_init(cluster_state)
      [] wl \in {"txn", "txn1"} -> [st |-> [store |-> EmptyMap], ok |-> TRUE]
      [] OTHER -> [st |-> <<>>, ok |-> TRUE]

\* Server::on_message
wl_on_message(wl, cluster_state, st, io_, input) ==
    CASE wl = "kafka" -> kafka_on_message(cluster_state, st, io_, input)
      [] wl = "kafka1" -> kafka1_on_message(cluster_state, st, io_, input)
      [] wl = "tree" -> tree_on_message(cluster_state, st, io_, input)
      [] wl = "gcounter" -> gcounter_on_message(cluster_state, st, io_, input)
      [] wl = "batch" -> batch_on_message(cluster_state, st, io_, input)
      [] wl = "txn" -> txn_on_message(cluster_state, st, io_, input)
      [] wl = "txn1" -> txn1_on_message(cluster_state, st, io_, input)
      [] OTHER -> unique_ids_on_message(cluster_state, st, io_, input)

\* Server::on_rpc_timeout: returns [st, ok]
wl_on_rpc_timeout(wl, st, request) ==
    CASE wl \in {"kafka", "kafka1"} -> kafka_on_rpc_timeout(st, request)
      [] wl \in {"tree", "batch", "gcounter"} -> [st |-> st, ok |-> TRUE]
      [] wl \in {"txn", "txn1"} -> txn_on_rpc_timeout(st, request)
      [] OTHER -> [st |-> st, ok |-> FALSE]

\* Server::on_timer for the timers the model delivers to a cluster node
wl_on_timer(wl, cluster_state, st, io_, timer) ==
    CASE wl = "batch" -> batch_on_timer(cluster_state, st, io_, timer)
      [] OTHER -> Ret(st, io_, TRUE)

\* the values the clients broadcast
Values == {7}

\* what the clients may send to node n of workload wl, given the msg_id
ClientRequests(wl, n, id) ==
    CASE wl = "kafka" ->
           {Message("c1", n, id, None, p) : p \in
              {[type |-> "send", key |-> k, msg |-> id, forwarded_for |-> NoForward] :
                 k \in {"0", "1"}}
              \cup {[type |-> "commit_offsets", offsets |-> [k \in {"0"} |-> 1]]}}
      [] wl = "tree" ->
           {Message("c1", n, id, None, [type |-> "broadcast", message |-> v]) :
              v \in Values}
      [] wl = "batch" ->
           {Message("c1", n, id, None,
                    [type |-> "broadcast", message |-> v, batch |-> NoBatch]) :
              v \in Values}
      [] wl = "gcounter" ->
           {Message(c, n, 1, None, [type |-> "add", delta |-> d]) :
              c \in {"c1", "c2"}, d \in {3, 4}}
      [] wl = "txn" ->
           {Message("c1", n, id, None, [type |-> "txn", txn |-> t]) : t \in
              {<<Op("w", 1, id)>>, <<Op("r", 1, None), Op("w", 2, id)>>}}
      [] OTHER ->
           {Message("c1", n, id, None, [type |-> t]) :
              t \in {"generate", "generate_ok"}}

\* ------------------------------------------------------ the cluster steps
NewNode(wl) ==
    [wl |-> wl, status |-> "new", io |-> IO(0, ClusterState("", <<>>), <<>>, EmptyMap),
     st |-> <<>>, nreq |-> 0]

\* the node ids of the cluster, in the order of the init message
ClusterIds(S) == CHOOSE f \in Orders(S) : \A i, j \in DOMAIN f : i < j => f[i] # f[j]

\* the envelopes io1 has written since io0 that are addressed to nodes
Sent(io0, io1) ==
    {io1.stdout[i] : i \in (Len(io0.stdout) + 1)..Len(io1.stdout)}

ToNodes(msgs) == {m \in msgs : m.dst \in DOMAIN nodes}

\* Node::init on node n: the handshake (init with msg_id 1 from c0)
ClusterInitNode(n) ==
    /\ nodes[n].status = "new"
    /\ LET cs == ClusterState(n, ClusterIds(DOMAIN nodes))
           h == wl_init(nodes[n].wl, cs)
           init == Message("c0", n, 1, None, P0("init", 0))
           init_io == IO(0, cs, <<>>, EmptyMap)
           r == rpc_reply_to(init_io, init, P0("init_ok", 0))
       IN nodes' = [nodes EXCEPT ![n] =
                      [@ EXCEPT !.status = IF h.ok /\ r.ok THEN "up" ELSE "failed",
                                !.io = IO(0, cs, r.io.stdout, EmptyMap),
                                !.st = h.st]]
    /\ UNCHANGED <<now, net>>
    /\ UNCHANGED runtime

\* on_message on node n for envelope m, as a step of Node::run
Handle(n, m) ==
    LET node == nodes[n]
        r == wl_on_message(node.wl, node.io.cluster_state, node.st, node.io, m)
    IN [node EXCEPT !.status = IF r.ok THEN "up" ELSE "failed",
                    !.io = r.io,
                    !.st = r.st]

\* a client request reaches node n
ClusterClient(n) ==
    /\ nodes[n].status = "up"
    /\ nodes[n].nreq < MaxRequests
    /\ \E m \in ClientRequests(nodes[n].wl, n, nodes[n].nreq + 2) :
         LET node == [Handle(n, m) EXCEPT !.nreq = @ + 1] IN
         /\ nodes' = [nodes EXCEPT ![n] = node]
         /\ net' = net \cup ToNodes(Sent(nodes[n].io, node.io))
    /\ UNCHANGED now
    /\ UNCHANGED runtime

\* ------------------------------------------------- unique ids, the cluster
InitIds ==
    /\ RuntimeIdle
    /\ nodes = [n \in {"n1", "n2", "n3"} |-> NewNode("unique_ids")]
    /\ net = {}

NextIds ==
    \/ \E n \in DOMAIN nodes : ClusterInitNode(n)
    \/ \E n \in DOMAIN nodes : ClusterClient(n)

SpecIds == InitIds /\ [][NextIds]_vars

\* ------------------------------------- two nodes that send each other RPCs
\* an envelope in flight reaches its node, which handles it
ClusterDeliver(m) ==
    /\ m \in net
    /\ nodes[m.dst].status = "up"
    /\ LET node == Handle(m.dst, m) IN
       /\ nodes' = [nodes EXCEPT ![m.dst] = node]
       /\ net' = (net \ {m}) \cup ToNodes(Sent(nodes[m.dst].io, node.io))
    /\ UNCHANGED now
    /\ UNCHANGED runtime

\* the network delivers a reply and keeps a copy of it in flight
ClusterRedeliver(m) ==
    /\ m \in net
    /\ m.body.in_reply_to # None
    /\ nodes[m.dst].status = "up"
    /\ LET node == Handle(m.dst, m) IN
       /\ nodes' = [nodes EXCEPT ![m.dst] = node]
       /\ net' = net \cup ToNodes(Sent(nodes[m.dst].io, node.io))
    /\ UNCHANGED now
    /\ UNCHANGED runtime

\* the number of client requests the cluster has taken
RECURSIVE TotalRequests(_)
TotalRequests(S) ==
    IF S = {} THEN 0
    ELSE LET n == CHOOSE x \in S : TRUE IN nodes[n].nreq + TotalRequests(S \ {n})

MaxCluster == 1

\* a client request reaches node n once every node has been initialised,
\* the cluster taking MaxCluster requests in all
ClusterRequest(n) ==
    /\ \A x \in DOMAIN nodes : nodes[x].status # "new"
    /\ TotalRequests(DOMAIN nodes) < MaxCluster
    /\ ClusterClient(n)

\* the deadlines of the requests pending on the running nodes
Deadlines ==
    UNION {{r.issued_at + r.timeout : r \in MapValues(nodes[n].io.pending_requests)} :
             n \in {x \in DOMAIN nodes : nodes[x].status = "up"}}

\* time passes for the whole cluster, up to the next deadline
ClusterTick ==
    /\ \E d \in Deadlines : d > now
    /\ now' = CHOOSE d \in Deadlines : d > now /\ \A e \in Deadlines : e > now => d <= e
    /\ now' <= MaxTicks * ForwardTimeout
    /\ UNCHANGED world
    /\ UNCHANGED runtime

\* the callbacks `for r in timedout { handler.on_rpc_timeout(..)? }`
RECURSIVE timeout_callbacks(_, _, _)
timeout_callbacks(wl, st, timedout) ==
    IF timedout = <<>> THEN [st |-> st, ok |-> TRUE]
    ELSE LET r == wl_on_rpc_timeout(wl, st, Head(timedout))
         IN IF r.ok THEN timeout_callbacks(wl, r.st, Tail(timedout)) ELSE r

\* the end of an iteration of Node::run on node n with expired requests
ClusterTend(n) ==
    /\ nodes[n].status = "up"
    /\ Expired(nodes[n].io) # {}
    /\ \E timedout \in Orders(Expired(nodes[n].io)) :
         LET t == rpc_tend(nodes[n].io, timedout)
             c == timeout_callbacks(nodes[n].wl, nodes[n].st, timedout)
         IN /\ nodes' = [nodes EXCEPT ![n] =
                           [@ EXCEPT !.status = IF t.ok /\ c.ok THEN "up" ELSE "failed",
                                     !.io = t.io,
                                     !.st = IF t.ok THEN c.st ELSE @]]
            /\ net' = net \cup ToNodes(Sent(nodes[n].io, t.io))
    /\ UNCHANGED now
    /\ UNCHANGED runtime

InitLate ==
    /\ RuntimeIdle
    /\ \E wl \in {"kafka", "txn"} : nodes = [n \in {"n0", "n1"} |-> NewNode(wl)]
    /\ net = {}

NextLate ==
    \/ \E n \in DOMAIN nodes : ClusterInitNode(n)
    \/ \E n \in DOMAIN nodes : ClusterRequest(n)
    \/ \E m \in net : ClusterDeliver(m)
    \/ \E m \in net : ClusterRedeliver(m)
    \/ ClusterTick
    \/ \E n \in DOMAIN nodes : ClusterTend(n)

SpecLate == InitLate /\ [][NextLate]_vars

\* ----------------------------------------------- the broadcast clusters
\* the network loses an attempt that its sender can still make again
ClusterLose(m) ==
    /\ m \in net
    /\ now + BroadcastTimeout <= MaxTicks * ForwardTimeout
    /\ net' = net \ {m}
    /\ UNCHANGED <<now, nodes>>
    /\ UNCHANGED runtime

\* the values a broadcast envelope carries
Carried(p) ==
    IF p.type # "broadcast" THEN {}
    ELSE IF "batch" \in DOMAIN p /\ p.batch.some THEN p.batch.set
    ELSE {p.message}

\* the values node n has sent in a broadcast request
Gossiped(n) ==
    UNION {Carried(nodes[n].io.hist[i].request.payload) :
             i \in {j \in DOMAIN nodes[n].io.hist : nodes[n].io.hist[j].op = "insert"}}

\* the Gossip timer of node n is delivered (Event::Timer) with a value in the
\* outbox that the node has not sent yet; time is not measured, the timer
\* may be due at any moment.  (The timer also fires for an outbox of values
\* sent before; those rounds repeat requests and are left out.)
ClusterTimer(n) ==
    /\ nodes[n].status = "up"
    /\ nodes[n].wl = "batch"
    /\ ~(nodes[n].st.outbox \subseteq Gossiped(n))
    /\ LET node == nodes[n]
           r == wl_on_timer(node.wl, node.io.cluster_state, node.st, node.io, "Gossip")
       IN /\ nodes' = [nodes EXCEPT ![n] =
                         [@ EXCEPT !.status = IF r.ok THEN "up" ELSE "failed",
                                   !.io = r.io, !.st = r.st]]
          /\ net' = net \cup ToNodes(Sent(node.io, r.io))
    /\ UNCHANGED now
    /\ UNCHANGED runtime

\* a client broadcasts to node n a value that no node has been given yet
ClusterBroadcast(n) ==
    /\ \A x \in DOMAIN nodes : nodes[x].status = "up"
    /\ \E m \in ClientRequests(nodes[n].wl, n, nodes[n].nreq + 2) :
         LET node == [Handle(n, m) EXCEPT !.nreq = @ + 1] IN
         /\ \A x \in DOMAIN nodes : m.body.payload.message \notin nodes[x].st.messages
         /\ nodes' = [nodes EXCEPT ![n] = node]
         /\ net' = net \cup ToNodes(Sent(nodes[n].io, node.io))
    /\ UNCHANGED now
    /\ UNCHANGED runtime

\* time passes up to the next deadline, every envelope in flight having been
\* delivered or lost before
ClusterTimeout ==
    /\ net = {}
    /\ ClusterTick

InitTree ==
    /\ RuntimeIdle
    /\ \E wl \in {"tree", "batch"} :
          nodes = [n \in {"n0", "n1", "n2"} |-> NewNode(wl)]
    /\ net = {}

NextTree ==
    \/ \E n \in DOMAIN nodes : ClusterInitNode(n)
    \/ \E n \in DOMAIN nodes : ClusterBroadcast(n)
    \/ \E m \in net : ClusterDeliver(m)
    \/ \E m \in net : ClusterLose(m)
    \/ \E n \in DOMAIN nodes : ClusterTimer(n)
    \/ ClusterTimeout
    \/ \E n \in DOMAIN nodes : ClusterTend(n)

SpecTree == InitTree /\ [][NextTree]_vars

\* --------------------------------------- broadcasts in the batch cluster
\* the broadcasts a client may address to node n: one that carries a value,
\* and one that carries both a value and a batch
BatchBroadcasts(n, id) ==
    {Message("c1", n, id, None, [type |-> "broadcast", message |-> 7, batch |-> NoBatch]),
     Message("c1", n, id, None,
             [type |-> "broadcast", message |-> 8, batch |-> SomeBatch({9})])}

\* a broadcast of a client reaches node n, the cluster taking MaxRequests of
\* them in all and each of them once
ClusterBatch(n) ==
    /\ \A x \in DOMAIN nodes : nodes[x].status # "new"
    /\ nodes[n].status = "up"
    /\ TotalRequests(DOMAIN nodes) < MaxRequests
    /\ \E m \in BatchBroadcasts(n, nodes[n].nreq + 2) :
         LET node == [Handle(n, m) EXCEPT !.nreq = @ + 1] IN
         /\ \A x \in DOMAIN nodes : m.body.payload.message \notin nodes[x].st.messages
         /\ nodes' = [nodes EXCEPT ![n] = node]
         /\ net' = net \cup ToNodes(Sent(nodes[n].io, node.io))
    /\ UNCHANGED now
    /\ UNCHANGED runtime

\* an envelope addressed to a node that has stopped is read by nobody
ClusterDrop(m) ==
    /\ m \in net
    /\ nodes[m.dst].status = "failed"
    /\ net' = net \ {m}
    /\ UNCHANGED <<now, nodes>>
    /\ UNCHANGED runtime

InitBatch ==
    /\ RuntimeIdle
    /\ nodes = [n \in {"n0", "n1", "n2"} |-> NewNode("batch")]
    /\ net = {}

NextBatch ==
    \/ \E n \in DOMAIN nodes : ClusterInitNode(n)
    \/ \E n \in DOMAIN nodes : ClusterBatch(n)
    \/ \E m \in net : ClusterDeliver(m)
    \/ \E m \in net : ClusterDrop(m)
    \/ \E n \in DOMAIN nodes : ClusterTimer(n)
    \/ ClusterTimeout
    \/ \E n \in DOMAIN nodes : ClusterTend(n)

SpecBatch == InitBatch /\ [][NextBatch]_vars

\* --------------------------------------- the topology of the batch cluster
\* the largest cluster
MaxNodes == 6

\* the node ids n0 .. n(N-1), in the order of the init message
NodeNames(N) == [i \in 1..N |-> "n" \o ToString(i - 1)]

\* Node::init on node n of the cluster n0 .. n(N-1)
TopologyInitNode(n) ==
    /\ nodes[n].status = "new"
    /\ LET cs == ClusterState(n, NodeNames(Cardinality(DOMAIN nodes)))
           h == wl_init(nodes[n].wl, cs)
           init == Message("c0", n, 1, None, P0("init", 0))
           init_io == IO(0, cs, <<>>, EmptyMap)
           r == rpc_reply_to(init_io, init, P0("init_ok", 0))
       IN nodes' = [nodes EXCEPT ![n] =
                      [@ EXCEPT !.status = IF h.ok /\ r.ok THEN "up" ELSE "failed",
                                !.io = IO(0, cs, r.io.stdout, EmptyMap),
                                !.st = h.st]]
    /\ UNCHANGED <<now, net>>
    /\ UNCHANGED runtime

InitTopology ==
    /\ RuntimeIdle
    /\ \E N \in 1..MaxNodes :
          nodes = [n \in SeqToSet(NodeNames(N)) |-> NewNode("batch")]
    /\ net = {}

NextTopology == \E n \in DOMAIN nodes : TopologyInitNode(n)

SpecTopology == InitTopology /\ [][NextTopology]_vars

\* ------------------------------------------------- the counter cluster
\* a client's first request (msg_id 1) reaches node n; every client of the
\* cluster sends one
ClusterAdd(n) ==
    /\ \A x \in DOMAIN nodes : nodes[x].status = "up"
    /\ \E m \in ClientRequests(nodes[n].wl, n, 1) :
         LET node == [Handle(n, m) EXCEPT !.nreq = @ + 1] IN
         /\ \A x \in DOMAIN nodes : m.src \notin DOMAIN nodes[x].st.node_counters
         /\ nodes' = [nodes EXCEPT ![n] = node]
         /\ net' = net \cup ToNodes(Sent(nodes[n].io, node.io))
    /\ UNCHANGED now
    /\ UNCHANGED runtime

InitCounter ==
    /\ RuntimeIdle
    /\ nodes = [n \in {"n0", "n1"} |-> NewNode("gcounter")]
    /\ net = {}

NextCounter ==
    \/ \E n \in DOMAIN nodes : ClusterInitNode(n)
    \/ \E n \in DOMAIN nodes : ClusterAdd(n)
    \/ \E m \in net : ClusterDeliver(m)
    \/ ClusterTimeout
    \/ \E n \in DOMAIN nodes : ClusterTend(n)

SpecCounter == InitCounter /\ [][NextCounter]_vars

\* ------------------------------------------------ the key-value stores
\* the ops of the client txns, as they are on the wire
JsonOps == {<<"w", 1, 5>>, <<"w", 1, 6>>, <<"r", 1, None>>}

\* the client txns: every txn of one or two ops, and one of three
JsonTxns ==
    {<<a>> : a \in JsonOps} \cup {<<a, b>> : a, b \in JsonOps}
       \cup {<< <<"w", 1, 5>>, <<"r", 1, None>>, <<"r", 2, None>> >>}

\* the envelope of a client txn, decoded
TxnMessage(n, id, json) ==
    Message("c1", n, id, None,
            [type |-> "txn", txn |-> [i \in DOMAIN json |-> op_deserialize(json[i])]])

\* a client txn reaches node n, the cluster taking MaxRequests txns in all
ClusterTxn(n) ==
    /\ \A x \in DOMAIN nodes : nodes[x].status = "up"
    /\ TotalRequests(DOMAIN nodes) < MaxRequests
    /\ \E json \in JsonTxns :
         LET node == [Handle(n, TxnMessage(n, nodes[n].nreq + 2, json))
                         EXCEPT !.nreq = @ + 1] IN
         /\ nodes' = [nodes EXCEPT ![n] = node]
         /\ net' = net \cup ToNodes(Sent(nodes[n].io, node.io))
    /\ UNCHANGED now
    /\ UNCHANGED runtime

InitTxn ==
    /\ RuntimeIdle
    /\ \E wl \in {"txn1", "txn"} : nodes = [n \in {"n0", "n1"} |-> NewNode(wl)]
    /\ net = {}

NextTxn ==
    \/ \E n \in DOMAIN nodes : ClusterInitNode(n)
    \/ \E n \in DOMAIN nodes : ClusterTxn(n)

SpecTxn == InitTxn /\ [][NextTxn]_vars

\* client txns and the replication between the two nodes
InitStores ==
    /\ RuntimeIdle
    /\ nodes = [n \in {"n0", "n1"} |-> NewNode("txn")]
    /\ net = {}

NextStores ==
    \/ \E n \in DOMAIN nodes : ClusterInitNode(n)
    \/ \E n \in DOMAIN nodes : ClusterTxn(n)
    \/ \E m \in net : ClusterDeliver(m)

SpecStores == InitStores /\ [][NextStores]_vars

\* ------------------------------------------------------ the kafka logs
\* the largest offset a client names in a poll or in commit_offsets
MaxOffset == 2

\* the send for key with message msg as the clients of workload wl write it
SendPayload(wl, key, msg) ==
    IF wl = "kafka"
    THEN [type |-> "send", key |-> key, msg |-> msg, forwarded_for |-> NoForward]
    ELSE [type |-> "send", key |-> key, msg |-> msg]

\* the sends and commit_offsets a client may address to node n
KafkaRequests(wl, n, id) ==
    {Message("c1", n, id, None, p) : p \in
        {SendPayload(wl, "0", id)}
        \cup {[type |-> "commit_offsets", offsets |-> [k \in {"0"} |-> v]] :
                 v \in 1..MaxOffset}}

\* a send or a commit_offsets of a client reaches node n, the cluster taking
\* MaxRequests of them in all
ClusterKafka(n) ==
    /\ \A x \in DOMAIN nodes : nodes[x].status = "up"
    /\ TotalRequests(DOMAIN nodes) < MaxRequests
    /\ \E m \in KafkaRequests(nodes[n].wl, n, nodes[n].nreq + 2) :
         LET node == [Handle(n, m) EXCEPT !.nreq = @ + 1] IN
         /\ nodes' = [nodes EXCEPT ![n] = node]
         /\ net' = net \cup ToNodes(Sent(nodes[n].io, node.io))
    /\ UNCHANGED now
    /\ UNCHANGED runtime

InitKafka ==
    /\ RuntimeIdle
    /\ \/ nodes = [n \in {"n0"} |-> NewNode("kafka1")]
       \/ nodes = [n \in {"n0", "n1"} |-> NewNode("kafka")]
    /\ net = {}

NextKafka ==
    \/ \E n \in DOMAIN nodes : ClusterInitNode(n)
    \/ \E n \in DOMAIN nodes : ClusterKafka(n)
    \/ \E m \in net : ClusterDeliver(m)

SpecKafka == InitKafka /\ [][NextKafka]_vars

\* ------------------------------------------------- the kafka replicas
\* the number of replica_poll requests the nodes issue in all
MaxPolls == 2

\* the replica_poll requests the nodes have issued
Polls ==
    {<<n, i>> \in UNION {{n} \X DOMAIN nodes[n].io.hist : n \in DOMAIN nodes} :
        /\ nodes[n].io.hist[i].op = "insert"
        /\ nodes[n].io.hist[i].request.payload.type = "replica_poll"}

\* the ReplicaPoll timer of node n is delivered (Event::Timer); time is not
\* measured: the timer is due every 250 ms and a replica_poll is pending for
\* 5 s, so that a tick may find earlier polls unanswered; the cluster
\* issues MaxPolls of them in all
ClusterPoll(n) ==
    /\ nodes[n].status = "up"
    /\ nodes[n].wl = "kafka"
    /\ Cardinality(Polls) < MaxPolls
    /\ \E order \in Orders(DOMAIN nodes[n].st.logs) :
         LET node == nodes[n]
             r == kafka_on_timer(node.io.cluster_state, node.st, node.io, order)
         IN /\ nodes' = [nodes EXCEPT ![n] =
                           [@ EXCEPT !.status = IF r.ok THEN "up" ELSE "failed",
                                     !.io = r.io, !.st = r.st]]
            /\ net' = net \cup ToNodes(Sent(node.io, r.io))
    /\ UNCHANGED now
    /\ UNCHANGED runtime

\* a send of a client for key "0" or "1" reaches node n, the cluster taking
\* MaxRequests of them in all
ClusterSend(n) ==
    /\ \A x \in DOMAIN nodes : nodes[x].status = "up"
    /\ TotalRequests(DOMAIN nodes) < MaxRequests
    /\ \E key \in {"0", "1"} :
         LET m == Message("c1", n, nodes[n].nreq + 2, None,
                          SendPayload("kafka", key, nodes[n].nreq + 2))
             node == [Handle(n, m) EXCEPT !.nreq = @ + 1]
         IN /\ nodes' = [nodes EXCEPT ![n] = node]
            /\ net' = net \cup ToNodes(Sent(nodes[n].io, node.io))
    /\ UNCHANGED now
    /\ UNCHANGED runtime

InitReplica ==
    /\ RuntimeIdle
    /\ nodes = [n \in {"n0", "n1"} |-> NewNode("kafka")]
    /\ net = {}

\* sends, and the first tick of the ReplicaPoll timer
NextReplica ==
    \/ \E n \in DOMAIN nodes : ClusterInitNode(n)
    \/ \E n \in DOMAIN nodes : ClusterSend(n)
    \/ \E n \in DOMAIN nodes : Polls = {} /\ ClusterPoll(n)
    \/ \E m \in net : ClusterDeliver(m)

SpecReplica == InitReplica /\ [][NextReplica]_vars

\* MaxCluster sends, and MaxPolls ticks of the ReplicaPoll timers
NextPolls ==
    \/ \E n \in DOMAIN nodes : ClusterInitNode(n)
    \/ \E n \in DOMAIN nodes :
          TotalRequests(DOMAIN nodes) < MaxCluster /\ ClusterSend(n)
    \/ \E n \in DOMAIN nodes : ClusterPoll(n)
    \/ \E m \in net : ClusterDeliver(m)

SpecPolls == InitReplica /\ [][NextPolls]_vars

\* ------------------------------------------- kafka: commits in a cluster
\* the number of commit_offsets of its peers a node handles
MaxRelays == 2

\* the commit_offsets of its peers node n has answered
RelaysOf(n) ==
    {i \in DOMAIN nodes[n].io.stdout :
        /\ nodes[n].io.stdout[i].body.payload.type = "commit_offsets_ok"
        /\ nodes[n].io.stdout[i].dst \in DOMAIN nodes}

\* a client's commit_offsets reaches node n, the cluster taking MaxCluster of
\* them in all
ClusterCommit(n) ==
    /\ \A x \in DOMAIN nodes : nodes[x].status = "up"
    /\ TotalRequests(DOMAIN nodes) < MaxCluster
    /\ LET m == Message("c1", n, nodes[n].nreq + 2, None,
                        [type |-> "commit_offsets", offsets |-> [k \in {"0"} |-> 1]])
           node == [Handle(n, m) EXCEPT !.nreq = @ + 1]
       IN /\ nodes' = [nodes EXCEPT ![n] = node]
          /\ net' = net \cup ToNodes(Sent(nodes[n].io, node.io))
    /\ UNCHANGED now
    /\ UNCHANGED runtime

\* an envelope in flight reaches its node, a node handling MaxRelays
\* commit_offsets of its peers
ClusterRelay(m) ==
    /\ m \in net
    /\ m.body.payload.type = "commit_offsets"
          => Cardinality(RelaysOf(m.dst)) < MaxRelays
    /\ ClusterDeliver(m)

InitCommit ==
    /\ RuntimeIdle
    /\ \E N \in 1..3 : nodes = [n \in SeqToSet(NodeNames(N)) |-> NewNode("kafka")]
    /\ net = {}

NextCommit ==
    \/ \E n \in DOMAIN nodes : TopologyInitNode(n)
    \/ \E n \in DOMAIN nodes : ClusterCommit(n)
    \/ \E m \in net : ClusterRelay(m)

\* every envelope in flight is delivered in the end
SpecCommit ==
    InitCommit /\ [][NextCommit]_vars /\ WF_vars(\E m \in net : ClusterRelay(m))

\* ================================================================ claims
\* the msg_ids written to the output, in order
EmittedIds == [i \in DOMAIN io.stdout |-> io.stdout[i].body.id]

\* C1: every envelope written to the output carries a msg_id strictly greater
\* than the msg_id of every envelope written before it, and the first
\* envelope is init_ok with msg_id 0.
C1_MsgIdsStrictlyIncreasing ==
    /\ \A i, j \in DOMAIN io.stdout : i < j => EmittedIds[i] < EmittedIds[j]
    /\ io.stdout # <<>> =>
          /\ EmittedIds[1] = 0
          /\ io.stdout[1].body.payload.type = "init_ok"

\* C2: the first envelope written is init_ok, addressed to the src of the
\* init envelope, with in_reply_to equal to the init envelope's msg_id, and
\* nothing is written before the handshake replies.
C2_InitOkFirst ==
    /\ pc = "init" => io.stdout = <<>>
    /\ io.stdout # <<>> =>
          /\ io.stdout[1].body.payload.type = "init_ok"
          /\ io.stdout[1].src = NodeId
          /\ io.stdout[1].dst = init_msg.src
          /\ io.stdout[1].body.in_reply_to = init_msg.body.id
    /\ \A i \in DOMAIN io.stdout :
          i > 1 => io.stdout[i].body.payload.type # "init_ok"

\* C2 witness: the handshake answered an init that carries a msg_id, and the
\* handler has written an envelope after it
C2_Witness ==
    /\ Len(io.stdout) >= 2
    /\ init_msg.body.id = 1
    /\ io.stdout[1].body.in_reply_to = 1

\* ------------------------------------------ the history of the pending table
Inserts == {i \in DOMAIN io.hist : io.hist[i].op = "insert"}
Removals == {i \in DOMAIN io.hist : io.hist[i].op \in {"complete", "expire"}}

\* the envelopes written with payload p to destination d
Emissions(d, p) ==
    {i \in DOMAIN io.stdout : io.stdout[i].dst = d /\ io.stdout[i].body.payload = p}

\* the keys of the retry chain that carries payload p to destination d
ChainKeys(d, p) ==
    {io.hist[i].key : i \in {j \in Inserts : /\ io.hist[j].request.retry
                                            /\ io.hist[j].request.dst = d
                                            /\ io.hist[j].request.payload = p}}

\* the time of the first attempt of that chain
ChainStart(d, p) ==
    LET first == CHOOSE i \in Inserts :
                    /\ io.hist[i].request.dst = d /\ io.hist[i].request.payload = p
                    /\ \A j \in Inserts :
                          (io.hist[j].request.dst = d /\ io.hist[j].request.payload = p)
                             => i <= j
    IN io.hist[first].at

\* a reply has completed an attempt of that chain
Answered(d, p) ==
    \E i \in DOMAIN io.hist : io.hist[i].op = "complete" /\ io.hist[i].key \in ChainKeys(d, p)

\* the dispatch loop is blocked in recv_timeout with time left to wait
Waiting == pc = "recv" /\ queue = <<>> /\ now - last_tick < tick_timeout

\* C3: an unanswered request with retry is re-emitted (same payload, same
\* destination, fresh msg_id) no later than one dispatch tick after the
\* deadline of each attempt; with timeout 50 ms at least 3 envelopes with
\* that payload have been written 200 ms after the first one.
C3_RetryWithinOneTick ==
    Waiting =>
      \A k \in DOMAIN io.pending_requests :
         LET r == io.pending_requests[k] IN
         r.retry =>
           /\ now < r.issued_at + r.timeout + TICK_DURATION
           /\ (r.timeout = 50 /\ now >= ChainStart(r.dst, r.payload) + 200)
                 => Cardinality(Emissions(r.dst, r.payload)) >= 3

\* C4: while the loop runs, the pending table holds exactly one entry for
\* every unanswered retry chain, keyed by the msg_id of the most recent
\* emission of its payload to its destination.
C4_OneEntryPerChain ==
    pc \in {"recv", "tend", "done"} =>
      \A i \in DOMAIN io.hist :
         (io.hist[i].op = "insert" /\ io.hist[i].request.retry) =>
            LET r == io.hist[i].request
                emitted == Emissions(r.dst, r.payload)
                keys == ChainKeys(r.dst, r.payload)
                last == CHOOSE e \in emitted : \A x \in emitted : e >= x
            IN (\A j \in DOMAIN io.hist :
                   io.hist[j].op = "complete" => io.hist[j].key \notin keys)
               => /\ emitted # {}
                  /\ keys \cap DOMAIN io.pending_requests = {io.stdout[last].body.id}

\* C4 witness: an unanswered chain in its third attempt while the loop waits
C4_Witness ==
    /\ Waiting
    /\ \E k \in DOMAIN io.pending_requests :
         LET r == io.pending_requests[k] IN
         /\ r.retry
         /\ ~Answered(r.dst, r.payload)
         /\ Cardinality(ChainKeys(r.dst, r.payload)) >= 3

\* the event at the head of the queue is a reply handled by rpc_mark_completed
ReplyAtHead ==
    /\ pc = "recv"
    /\ queue # <<>>
    /\ Head(queue).kind = "Message"
    /\ Head(queue).msg.body.payload.type = "ok"

\* C5: rpc_mark_completed on a reply whose in_reply_to is absent or not a key
\* of the pending table leaves the table, the sequence counter and the output
\* unchanged and returns without error.
C5_MarkCompletedNoop ==
    [][ (/\ ReplyAtHead
         /\ pc' # pc
         /\ \/ Head(queue).msg.body.in_reply_to = None
            \/ Head(queue).msg.body.in_reply_to \notin DOMAIN io.pending_requests)
        => (/\ io'.pending_requests = io.pending_requests
            /\ io'.seq = io.seq
            /\ io'.stdout = io.stdout
            /\ pc' = "tend") ]_vars

\* C5 witness: the handler has just processed a reply to msg_id 0 that
\* completed nothing, while other requests are pending
C5_Witness ==
    /\ pc = "tend"
    /\ event.kind = "Message"
    /\ event.msg.body.payload.type = "ok"
    /\ event.msg.body.in_reply_to = 0
    /\ io.pending_requests # EmptyMap
    /\ ~\E i \in DOMAIN io.hist : io.hist[i].op = "complete"

\* C6: applying rpc_mark_completed twice with the same reply yields the
\* pending table that applying it once yields, for every reply.
C6_MarkCompletedIdempotent ==
    \A s \in ReplySrcs, k \in ReplyIds \cup {None} \cup DOMAIN io.pending_requests :
       LET m == Message(s, NodeId, 0, k, P0("ok", 0))
           once == rpc_mark_completed(io, m)
           twice == rpc_mark_completed(once, m)
       IN twice.pending_requests = once.pending_requests

\* C6 witness: the handler has just processed a reply that had already
\* completed its request at an earlier time
C6_Witness ==
    /\ pc = "tend"
    /\ event.kind = "Message"
    /\ event.msg.body.payload.type = "ok"
    /\ \E i \in DOMAIN io.hist :
          /\ io.hist[i].op = "complete"
          /\ io.hist[i].key = event.msg.body.in_reply_to
          /\ io.hist[i].src = event.msg.src
          /\ (i < Len(io.hist) \/ io.hist[i].at < now)

\* C7 as claimed: an entry is removed by completion only on a reply whose
\* in_reply_to is its key and whose src is the dst recorded in the entry, and
\* no entry is removed twice.
C7_CompletedOnlyByDst ==
    /\ \A i \in DOMAIN io.hist :
          io.hist[i].op = "complete" =>
             /\ io.hist[i].key = io.hist[i].request.id
             /\ io.hist[i].src = io.hist[i].request.dst
    /\ \A i, j \in Removals : i # j => io.hist[i].key # io.hist[j].key

\* C7 as amended: a step of the handler removes entry k only if the message
\* it handles is a reply whose in_reply_to is k (whatever its src), and no
\* key is removed that had been removed before.
C7_CompletedOnlyByInReplyTo ==
    [][ \A k \in (DOMAIN io.pending_requests) \ (DOMAIN io'.pending_requests) :
          /\ pc = "recv" =>
                /\ ReplyAtHead
                /\ Head(queue).msg.body.in_reply_to = k
          /\ \A i \in Removals : io.hist[i].key # k ]_vars

\* C7 witness: a reply from n3 has completed a request that was sent to n2
C7_Witness ==
    \E i \in DOMAIN io.hist :
       /\ io.hist[i].op = "complete"
       /\ io.hist[i].src = "n3"
       /\ io.hist[i].request.dst = "n2"
       /\ io.hist[i].key \notin DOMAIN io.pending_requests

\* C8: the keys inserted into the pending table are strictly increasing in
\* insertion order, and a key that was removed is never inserted again.
C8_KeysIncreaseNeverReused ==
    /\ \A i, j \in Inserts : i < j => io.hist[i].key < io.hist[j].key
    /\ \A i \in Removals, j \in Inserts : i < j => io.hist[i].key # io.hist[j].key

\* C8 witness: inserts followed a completion and a removal by the tender
C8_Witness ==
    /\ \E i \in Removals, j \in Inserts : i < j /\ io.hist[i].op = "complete"
    /\ \E i \in Removals, j \in Inserts : i < j /\ io.hist[i].op = "expire"

\* C9: for every key k of the pending table an envelope with msg_id k, the
\* entry's dst and the entry's payload has been written to the output (a
\* failed send leaves no entry behind).
C9_PendingWasWritten ==
    \A k \in DOMAIN io.pending_requests :
       LET r == io.pending_requests[k] IN
       /\ r.id = k
       /\ \E i \in Emissions(r.dst, r.payload) :
             /\ io.stdout[i].body.id = k
             /\ io.stdout[i].src = NodeId
             /\ io.stdout[i].body.in_reply_to = None

\* C9 witness: a request failed to be sent while earlier requests are pending
C9_Witness ==
    /\ pc = "failed"
    /\ ~stdout_open
    /\ event.kind = "Message"
    /\ event.msg.body.payload.type = "call"
    /\ io.pending_requests # EmptyMap

\* C10: after an envelope fails to decode the dispatch loop stops: once the
\* reader has failed and the events read before are consumed, the loop does
\* not go on to another tick.
C10_DecodeFailureStops ==
    [][ (reader = "failed" /\ queue = <<>>) => pc' # "tend" ]_vars

\* ----------------------------------------------- the callbacks of Node::run
\* the msg_ids delivered to on_message, in order
Delivered ==
    LET d == SelectSeq(calls, LAMBDA c : c.cb = "on_message")
    IN [i \in DOMAIN d |-> d[i].arg]

\* the msg_ids of the envelopes waiting in the channel, in order
Queued ==
    LET q == SelectSeq(queue, LAMBDA e : e.kind = "Message")
    IN [i \in DOMAIN q |-> q[i].msg.body.id]

\* the EOF event is waiting in the channel
EOFQueued == \E i \in DOMAIN queue : queue[i].kind = "EOF"

\* the output was closed in this step
Closing == stdout_open /\ ~stdout_open'

\* C11: once EOF is in the channel the dispatch loop terminates: it can
\* always take its next step without waiting, and every step either ends
\* run, takes the event at the head of the queue, or finishes the loop body
\* leaving the events ahead of EOF as they are, so EOF is reached after
\* finitely many steps and ends run with Ok.  run fails only if a callback
\* or a write failed; when it returns Ok every decoded envelope has been
\* delivered to on_message; and nothing runs after EOF was taken.
C11_EOFTerminates ==
    [][ /\ (EOFQueued /\ pc \in {"recv", "tend"}) =>
              /\ ENABLED Dispatch
              /\ \/ Closing
                 \/ /\ pc = "recv" /\ Head(queue).kind = "EOF"
                    /\ pc' = "done"
                 \/ /\ pc = "recv" /\ Head(queue).kind # "EOF"
                    /\ pc' \in {"tend", "failed"}
                    /\ queue' = Tail(queue)
                 \/ /\ pc = "tend"
                    /\ pc' \in {"recv", "failed"}
                    /\ SubSeq(queue', 1, Len(queue)) = queue
        /\ pc' = "failed" =>
              \/ ~stdout_open'
              \/ init_msg' = NoMessage
              \/ \E i \in DOMAIN calls' : ~calls'[i].ok
        /\ pc' = "done" => (reader' = "done" /\ Delivered' = decoded')
        /\ pc = "done" => vars' = vars ]_vars

\* C11 witness: run returned Ok after delivering an envelope, with a timer
\* event left behind the EOF event in the channel
C11_Witness ==
    /\ pc = "done"
    /\ Len(decoded) >= 1
    /\ Delivered = decoded
    /\ queue # <<>>

\* C12: a callback that returned an error is the last callback made, run has
\* returned an error, and nothing was written after the callback returned.
C12_HandlerErrorIsFatal ==
    \A i \in DOMAIN calls :
       ~calls[i].ok =>
          /\ i = Len(calls)
          /\ pc = "failed"
          /\ Len(io.stdout) = calls[i].out

\* C12 witness: on_rpc_timeout returned an error after the tender had
\* re-issued the request, with input left to read
C12_Witness ==
    /\ calls # <<>>
    /\ calls[Len(calls)].cb = "on_rpc_timeout"
    /\ ~calls[Len(calls)].ok
    /\ calls[Len(calls)].out >= 3
    /\ reader = "reading"

\* C13: the envelopes delivered to on_message followed by the envelopes
\* waiting in the channel are the envelopes the reader decoded, in input
\* order: none is lost, duplicated or overtaken.
C13_DeliveredInOrder ==
    /\ Delivered \o Queued = decoded
    /\ \A i, j \in DOMAIN decoded : i < j => decoded[i] # decoded[j]

\* C13 witness: a timer event was delivered between two envelopes
C13_Witness ==
    \E i, j, k \in DOMAIN calls :
       /\ i < j /\ j < k
       /\ calls[i].cb = "on_message"
       /\ calls[j].cb = "on_timer"
       /\ calls[k].cb = "on_message"

\* C15: a timeout of an unanswered request is never fatal: on_rpc_timeout
\* never returns an error, and after a pass of the tender over expired
\* requests the dispatch loop keeps running.
C15_TimeoutNeverFatal ==
    \A i \in DOMAIN calls : calls[i].cb = "on_rpc_timeout" => calls[i].ok

\* C17: an echo request is answered by exactly one echo_ok, addressed to the
\* request's src, with the same echo value and in_reply_to equal to the
\* request's msg_id; after init (msg_id 1) and one echo (msg_id 2) the
\* output is init_ok with msg_id 0, then echo_ok with in_reply_to 2 and
\* msg_id 1.
C17_EchoAnswered ==
    (pc = "tend" /\ event.kind = "Message"
       /\ event.msg.body.payload.type = "echo") =>
       LET m == event.msg
           replies == {i \in DOMAIN io.stdout :
                          /\ io.stdout[i].body.payload.type = "echo_ok"
                          /\ io.stdout[i].body.in_reply_to = m.body.id}
       IN /\ Cardinality(replies) = 1
          /\ \A i \in replies :
                /\ io.stdout[i].dst = m.src
                /\ io.stdout[i].body.payload.arg = m.body.payload.arg
          /\ (init_msg.body.id = 1 /\ m.body.id = 2) =>
                /\ Len(io.stdout) = 2
                /\ io.stdout[1].body.payload.type = "init_ok"
                /\ io.stdout[1].body.in_reply_to = 1
                /\ io.stdout[1].body.id = 0
                /\ io.stdout[2].body.in_reply_to = 2
                /\ io.stdout[2].body.id = 1

\* the number of times timer tag was delivered to on_timer
Fired(tag) ==
    Cardinality({i \in DOMAIN calls : calls[i].cb = "on_timer" /\ calls[i].arg = tag})

\* the dispatch loop is blocked in recv_timeout with nothing to do
Idle == pc = "recv" /\ queue = <<>> /\ now - last_tick < tick_timeout

\* C14: over the window from registration (time 0) to now, a timer with
\* interval I is delivered at most ceil(now/I) + 1 times and, once the loop
\* has nothing left to do at time now, at least floor(now/I) - 1 times.
C14_TimerRate ==
    \A i \in DOMAIN regs :
       LET I == regs[i].interval
           n == Fired(regs[i].timer)
       IN /\ n <= ((now + I - 1) \div I) + 1
          /\ Idle => n >= (now \div I) - 1

\* ------------------------------------------------------------- unique ids
\* the positions of the generate_ok replies in the output of node n
GenerateOks(n) ==
    {i \in DOMAIN nodes[n].io.stdout :
        nodes[n].io.stdout[i].body.payload.type = "generate_ok"}

\* C18: on node X the k-th generate request is answered with id "X-k".
C18_KthIdIsK ==
    \A n \in DOMAIN nodes :
       \A i \in GenerateOks(n) :
          LET k == Cardinality({j \in GenerateOks(n) : j <= i})
          IN nodes[n].io.stdout[i].body.payload.id = n \o "-" \o ToString(k)

\* C19: no two generate_ok replies of the cluster carry the same id.
C19_IdsUnique ==
    \A n1, n2 \in DOMAIN nodes :
       \A i \in GenerateOks(n1), j \in GenerateOks(n2) :
          (n1 # n2 \/ i # j) =>
             nodes[n1].io.stdout[i].body.payload.id
                # nodes[n2].io.stdout[j].body.payload.id

\* C19 witness: two nodes have each answered two generate requests
C19_Witness ==
    \E n1, n2 \in DOMAIN nodes :
       /\ n1 # n2
       /\ Cardinality(GenerateOks(n1)) >= 2
       /\ Cardinality(GenerateOks(n2)) >= 2


\* the replies in flight to a running node whose request is no longer in its
\* pending table
LateReplies ==
    {m \in net : /\ nodes[m.dst].status = "up"
                 /\ m.body.in_reply_to # None
                 /\ m.body.in_reply_to \notin DOMAIN nodes[m.dst].io.pending_requests}

\* C16: in kafka-multi-node and txn-kv-two-node a reply whose in_reply_to is
\* present but names no pending request is ignored: the handler returns no
\* error and leaves the workload state, the pending table and the output as
\* they were.
C16_LateReplyIgnored ==
    \A m \in LateReplies : Handle(m.dst, m) = nodes[m.dst]

\* C16 witness: a send_ok is still in flight to a kafka node that has already
\* completed the forwarded send it answers and relayed the answer
C16_Witness ==
    \E m \in LateReplies :
       /\ m.body.payload.type = "send_ok"
       /\ \E i \in DOMAIN nodes[m.dst].io.hist :
             /\ nodes[m.dst].io.hist[i].op = "complete"
             /\ nodes[m.dst].io.hist[i].key = m.body.in_reply_to

\* the running nodes
Up == {n \in DOMAIN nodes : nodes[n].status = "up"}

\* the set a read on node n returns
ReadOn(n) ==
    LET node == Handle(n, Message("c1", n, 0, None, [type |-> "read"]))
    IN node.io.stdout[Len(node.io.stdout)].body.payload.messages

\* node h is bound to hand v to node l: a request with retry that carries v
\* is pending for l, or v waits in the outbox for the next Gossip timer
Carrying(h, l, v) ==
    \/ \E r \in MapValues(nodes[h].io.pending_requests) :
          r.dst = l /\ r.retry /\ v \in Carried(r.payload)
    \/ /\ nodes[h].wl = "batch"
       /\ v \in nodes[h].st.outbox
       /\ l \in SeqToSet(nodes[h].st.neighbours)

ReadValue(n) ==
    LET node == Handle(n, Message("c9", n, 0, None, [type |-> "read"]))
    IN node.io.stdout[Len(node.io.stdout)].body.payload.value

\* the pairs (id, delta) of the adds node n has taken from clients
AcceptedAt(n) ==
    UNION {{<<c, p>> : p \in nodes[n].st.node_counters[c]} :
             c \in DOMAIN nodes[n].st.node_counters \ DOMAIN nodes}

\* the sum of the deltas of a set of accepted adds <<client, <<id, delta>>>>
RECURSIVE SumAccepted(_)
SumAccepted(adds) ==
    IF adds = {} THEN 0
    ELSE LET a == CHOOSE x \in adds : TRUE IN a[2][2] + SumAccepted(adds \ {a})

\* C21: once every replicate has been delivered, a read on every node of the
\* grow-only counter returns the sum of the deltas of all accepted adds.
C21_CounterConverges ==
    (Up = DOMAIN nodes /\ net = {}) =>
        \A n \in Up :
           ReadValue(n) = SumAccepted(UNION {AcceptedAt(x) : x \in Up})

\* C22: a node that has taken a replicate from a node has written a
\* replicate_ok to it, so that the request does not stay pending.
C22_ReplicateAnswered ==
    \A d \in Up : \A s \in DOMAIN nodes[d].st.node_counters \cap DOMAIN nodes :
        \E i \in DOMAIN nodes[d].io.stdout :
           /\ nodes[d].io.stdout[i].dst = s
           /\ nodes[d].io.stdout[i].body.payload.type = "replicate_ok"

\* the value of key as the i-th op of the txn json finds it on store: the
\* value of the last write to key before i, the stored one if there is none,
\* null if the key was never written
ValueAt(json, store, i, key) ==
    LET ws == {j \in 1..(i - 1) : json[j][1] = "w" /\ json[j][2] = key} IN
    IF ws # {} THEN json[CHOOSE j \in ws : \A k \in ws : k <= j][3]
    ELSE IF key \in DOMAIN store THEN store[key]
    ELSE None

\* what txn_ok lists for the txn json on store
Expected(json, store) ==
    [i \in DOMAIN json |->
        IF json[i][1] = "w" THEN json[i]
        ELSE <<"r", json[i][2], ValueAt(json, store, i, json[i][2])>>]

\* the txn_ok that node n writes for the txn json, as it is on the wire
TxnOkOf(n, json) ==
    LET node == Handle(n, TxnMessage(n, 9, json))
        reply == node.io.stdout[Len(node.io.stdout)]
    IN [ok |-> node.status = "up" /\ Len(node.io.stdout) > Len(nodes[n].io.stdout),
        to |-> reply.dst,
        type |-> reply.body.payload.type,
        txn |-> [i \in DOMAIN reply.body.payload.txn |->
                    op_serialize(reply.body.payload.txn[i])],
        store |-> node.st.store]

\* C23: in both key-value variants txn_ok lists the ops of the txn in order,
\* a write unchanged and a read with the key's current value (a value
\* written earlier in the txn included) or null, and the writes are applied
\* to the store.
C23_TxnEvaluatedInOrder ==
    \A n \in Up : nodes[n].wl \in {"txn", "txn1"} =>
       \A json \in JsonTxns :
          LET r == TxnOkOf(n, json) IN
          /\ r.ok /\ r.to = "c1" /\ r.type = "txn_ok"
          /\ r.txn = Expected(json, nodes[n].st.store)
          /\ \A k \in DOMAIN r.store :
                r.store[k] = ValueAt(json, nodes[n].st.store, Len(json) + 1, k)
          /\ DOMAIN nodes[n].st.store \subseteq DOMAIN r.store

\* C23 witness: a node of each variant has written a txn_ok for the txn
\* [[w,1,5],[r,1,null],[r,2,null]] on an empty store, and holds the write
C23_Witness ==
    \E n \in Up :
       /\ nodes[n].st.store = [k \in {1} |-> 5]
       /\ \E i \in DOMAIN nodes[n].io.stdout :
             /\ nodes[n].io.stdout[i].body.payload.type = "txn_ok"
             /\ [j \in DOMAIN nodes[n].io.stdout[i].body.payload.txn |->
                    op_serialize(nodes[n].io.stdout[i].body.payload.txn[j])]
                  = << <<"w", 1, 5>>, <<"r", 1, 5>>, <<"r", 2, None>> >>

\* ------------------------------------------------ kafka: forwarded sends
\* the running kafka nodes
KafkaUp == {n \in Up : nodes[n].wl = "kafka"}

\* n(k mod N), the node that leads key
LeaderOf(key) == "n" \o ToString(ParseInt(key) % Cardinality(DOMAIN nodes))

\* what node n writes when it handles m
Written(n, m) ==
    SubSeq(Handle(n, m).io.stdout, Len(nodes[n].io.stdout) + 1,
           Len(Handle(n, m).io.stdout))

\* the sends a client may address to node n next that n does not lead
ForeignSends(n) ==
    {m \in ClientRequests("kafka", n, nodes[n].nreq + 2) :
        /\ m.body.payload.type = "send"
        /\ LeaderOf(m.body.payload.key) # n}

\* the send_ok envelopes in flight that answer a forward still pending
PendingSendOks ==
    {m \in net : /\ m.dst \in KafkaUp
                 /\ m.body.payload.type = "send_ok"
                 /\ rpc_still_pending(nodes[m.dst].io, m)}

\* node n forwards the client's send m to the leader of its key
ForwardsToLeader(n, m) ==
    LET p == m.body.payload
        fwd == [type |-> "send", key |-> p.key, msg |-> p.msg,
                forwarded_for |-> <<m.src, m.body.id>>]
        id == nodes[n].io.seq
        node == Handle(n, m)
    IN /\ node.status = "up"
       /\ Written(n, m) = <<Message(n, LeaderOf(p.key), id, None, fwd)>>
       /\ node.io.pending_requests =
             MapInsert(nodes[n].io.pending_requests, id,
                       Request(id, LeaderOf(p.key), fwd, ForwardTimeout, now, TRUE))
       /\ node.st = nodes[n].st

\* the node that forwarded relays the leader's send_ok m to the client
RelaysToClient(m) ==
    LET n == m.dst
        req == nodes[n].io.pending_requests[m.body.in_reply_to].payload
        offset == m.body.payload.offset
        node == Handle(n, m)
    IN /\ node.status = "up"
       /\ Written(n, m) =
             <<Message(n, req.forwarded_for[1], nodes[n].io.seq, req.forwarded_for[2],
                       [type |-> "send_ok", offset |-> offset,
                        forwarded_for |-> NoForward])>>
       /\ node.io.pending_requests =
             MapRemove(nodes[n].io.pending_requests, m.body.in_reply_to)
       /\ m.src = LeaderOf(req.key)
       /\ offset < Len(LogOf(nodes[m.src].st.logs, req.key))
       /\ LogOf(nodes[m.src].st.logs, req.key)[offset + 1] = <<offset, req.msg>>

\* the send_ok envelopes node n has written to clients
ClientSendOks(n) ==
    {i \in DOMAIN nodes[n].io.stdout :
        /\ nodes[n].io.stdout[i].dst \notin DOMAIN nodes
        /\ nodes[n].io.stdout[i].body.payload.type = "send_ok"}

\* C24: in kafka-multi-node a send for key k that reaches a node other than
\* n(k mod N) is forwarded to n(k mod N) with forwarded_for = (client, client
\* msg_id); when the send_ok of the still pending forward arrives the node
\* writes a send_ok to that client with in_reply_to the client's msg_id and
\* the offset the leader assigned, and completes the pending entry; a client
\* gets at most one send_ok per send.
C24_ForwardedSendRelayed ==
    /\ \A n \in KafkaUp : \A m \in ForeignSends(n) : ForwardsToLeader(n, m)
    /\ \A m \in PendingSendOks : RelaysToClient(m)
    /\ \A n \in DOMAIN nodes : \A i, j \in ClientSendOks(n) :
          (/\ nodes[n].io.stdout[i].dst = nodes[n].io.stdout[j].dst
           /\ nodes[n].io.stdout[i].body.in_reply_to =
                 nodes[n].io.stdout[j].body.in_reply_to) => i = j

\* C24 witness: a node has forwarded a client's send and relayed the
\* leader's answer to that client, while a copy of the answer is still in
\* flight to it
C24_Witness ==
    \E n \in KafkaUp : \E i \in ClientSendOks(n) : \E j \in 1..(i - 1) :
       /\ nodes[n].io.stdout[j].body.payload.type = "send"
       /\ nodes[n].io.stdout[j].body.payload.forwarded_for =
             <<nodes[n].io.stdout[i].dst, nodes[n].io.stdout[i].body.in_reply_to>>
       /\ \E m \in net : m.dst = n /\ m.body.payload.type = "send_ok"
                         /\ m.body.in_reply_to = nodes[n].io.stdout[j].body.id

\* ------------------------------------------------------- kafka: the logs
\* the poll of one key from one offset, as a client sends it to node n
PollMessage(n, key, offset) ==
    Message("c1", n, 1, None, [type |-> "poll", offsets |-> [k \in {key} |-> offset]])

\* the records of a log whose offset is at least offset, in log order, at
\* most limit of them
RECURSIVE RecordsFrom(_, _, _)
RecordsFrom(records, offset, limit) ==
    IF records = <<>> \/ limit = 0 THEN <<>>
    ELSE IF Head(records)[1] >= offset
         THEN <<Head(records)>> \o RecordsFrom(Tail(records), offset, limit - 1)
         ELSE RecordsFrom(Tail(records), offset, limit)

\* the limit of a poll in the workload of node n
PollLimit(n) == IF nodes[n].wl = "kafka1" THEN ReadLimit1 ELSE ReadLimit

\* node n answers the poll of key from offset with the records the log has
\* from there on
PollAnswered(n, key, offset) ==
    LET node == Handle(n, PollMessage(n, key, offset))
        out == node.io.stdout
    IN /\ node.status = "up"
       /\ Len(out) = Len(nodes[n].io.stdout) + 1
       /\ out[Len(out)].dst = "c1"
       /\ out[Len(out)].body.in_reply_to = 1
       /\ out[Len(out)].body.payload =
             [type |-> "poll_ok",
              msgs |-> [k \in {key} |->
                          RecordsFrom(LogOf(nodes[n].st.logs, key), offset,
                                      PollLimit(n))]]

\* C25: for every key and every requested offset, at or beyond the end of
\* the log and for keys with no log too, a poll is answered with poll_ok
\* listing for the key the records with offset >= the requested one in log
\* order, at most 10 (kafka-single-node) or 50 (kafka-multi-node), and an
\* empty list when there are none.
C25_PollAnswered ==
    \A n \in Up : \A key \in {"0", "1"} : \A offset \in 0..MaxOffset :
       PollAnswered(n, key, offset)

\* the offset node n has stored for key, None if it has none
Stored(st, key) ==
    IF key \in DOMAIN st.offset_store THEN st.offset_store[key] ELSE None

\* the offset list_committed_offsets returns for key on a node, None if the
\* answer has no entry for it
ListedOn(n, node, key) ==
    LET r == wl_on_message(node.wl, node.io.cluster_state, node.st, node.io,
                Message("c1", n, 1, None,
                        [type |-> "list_committed_offsets", keys |-> <<key>>]))
        offsets == r.io.stdout[Len(r.io.stdout)].body.payload.offsets
    IN IF key \in DOMAIN offsets THEN offsets[key] ELSE None

\* the commit_offsets{key: v} of a client at node n
CommitMessage(n, key, v) ==
    Message("c1", n, 1, None,
            [type |-> "commit_offsets", offsets |-> [k \in {key} |-> v]])

\* C26: in both kafka variants the offset stored for k after
\* commit_offsets{k: v} is max(previously stored offset, v), so the offset
\* list_committed_offsets returns for a key never decreases.
C26_CommitKeepsMax ==
    \A n \in Up : \A v \in 1..MaxOffset :
       LET prev == Stored(nodes[n].st, "0")
           node == Handle(n, CommitMessage(n, "0", v))
           max == IF prev # None /\ prev >= v THEN prev ELSE v
       IN /\ node.status = "up"
          /\ Stored(node.st, "0") = max
          /\ ListedOn(n, node, "0") = max
          /\ prev # None => ListedOn(n, node, "0") >= ListedOn(n, nodes[n], "0")

\* --------------------------------------------- broadcast-tree-batch: shape
\* the broadcasts node n has written
BroadcastsOf(n) ==
    {nodes[n].io.stdout[i].body.payload : i \in
        {j \in DOMAIN nodes[n].io.stdout :
            nodes[n].io.stdout[j].body.payload.type = "broadcast"}}

\* a broadcast that carries both a message and a batch, from src to node n
BothTo(src, n) ==
    Message(src, n, 1, None,
            [type |-> "broadcast", message |-> 8, batch |-> SomeBatch({9})])

\* C27: in broadcast-tree-batch a node never writes a broadcast that carries
\* both message and batch, or neither, or an empty batch; a node that
\* receives a broadcast carrying both stops: it merges nothing into its
\* messages or its outbox and writes no broadcast_ok.
C27_NeverBothMessageAndBatch ==
    /\ \A n \in DOMAIN nodes : \A p \in BroadcastsOf(n) :
          /\ (p.message = None) # (~p.batch.some)
          /\ p.batch.some => p.batch.set # {}
    /\ \A n \in Up : \A src \in {"c1"} \cup (DOMAIN nodes \ {n}) :
          LET node == Handle(n, BothTo(src, n))
          IN /\ node.status = "failed"
             /\ node.st = nodes[n].st
             /\ node.io.stdout = nodes[n].io.stdout
    /\ \A n \in DOMAIN nodes : nodes[n].status # "new" =>
          8 \notin nodes[n].st.messages \cup nodes[n].st.outbox

\* C27 witness: a node has stopped on a client's broadcast carrying both,
\* with nothing merged and no broadcast_ok written, while another node has
\* written a batch for its neighbours
C27_Witness ==
    \E n \in DOMAIN nodes :
       /\ nodes[n].status = "failed"
       /\ nodes[n].nreq >= 1
       /\ 8 \notin nodes[n].st.messages
       /\ \A i \in DOMAIN nodes[n].io.stdout :
             nodes[n].io.stdout[i].body.payload.type # "broadcast_ok"
       /\ \E x \in DOMAIN nodes \ {n} : BroadcastsOf(x) # {}

\* --------------------------------------------------- one pass of rpc_tend
\* rpc_tend has just returned
Tended == pc = "tend" /\ calls # <<>>

\* the pending table before the pass
Before == calls[1].before.pending_requests

\* the entries of the table before the pass that had expired
ExpiredBefore ==
    {r \in MapValues(Before) : now - r.issued_at >= r.timeout}

\* what the pass has written
WrittenByPass ==
    SubSeq(io.stdout, Len(calls[1].before.stdout) + 1, Len(io.stdout))

\* the entries the pass has inserted
InsertedByPass == {k \in DOMAIN io.pending_requests : k \notin DOMAIN Before}

\* entry k is the re-issue of the removed entry r
ReissueOf(k, r) ==
    /\ k >= calls[1].before.seq
    /\ io.pending_requests[k] = Request(k, r.dst, r.payload, r.timeout, now, r.retry)
    /\ \E i \in DOMAIN WrittenByPass :
          WrittenByPass[i] = Message(NodeId, r.dst, k, None, r.payload)

\* C28: one rpc_tend pass removes exactly the pending entries whose age is
\* >= their timeout and returns exactly those; for each removed entry with
\* retry it writes one envelope and inserts one new entry with a fresh id, a
\* new issued_at and the same dst, payload, timeout and retry flag; a removed
\* entry without retry is not re-emitted; the other entries are unchanged.
C28_TendPass ==
    (Tended /\ calls[1].ok) =>
      /\ {calls[1].timedout[i] : i \in DOMAIN calls[1].timedout} = ExpiredBefore
      /\ Len(calls[1].timedout) = Cardinality(ExpiredBefore)
      /\ \A r \in ExpiredBefore : r.id \notin DOMAIN io.pending_requests
      /\ \A k \in DOMAIN Before :
            Before[k] \notin ExpiredBefore =>
               k \in DOMAIN io.pending_requests /\ io.pending_requests[k] = Before[k]
      /\ \A r \in ExpiredBefore :
            r.retry => \E k \in InsertedByPass : ReissueOf(k, r)
      /\ Cardinality(InsertedByPass) = Cardinality({r \in ExpiredBefore : r.retry})
      /\ Len(WrittenByPass) = Cardinality({r \in ExpiredBefore : r.retry})
      /\ \A k \in InsertedByPass : \E r \in ExpiredBefore : r.retry /\ ReissueOf(k, r)

\* C28 witness: a pass has removed an entry with retry and one without and
\* has re-issued the first only
C28_Witness ==
    /\ Tended
    /\ \E r \in ExpiredBefore : r.retry
    /\ \E r \in ExpiredBefore : ~r.retry
    /\ Len(WrittenByPass) = 1
    /\ Cardinality(DOMAIN io.pending_requests) = 1

\* max(0, timeout - age) of an entry
TimeLeft(r) == checked_sub(r.timeout, now - r.issued_at)

\* C29: the sleep hint rpc_tend returns is never negative and is the minimum
\* over all the entries in the table when rpc_tend returns, the re-issued
\* ones included, of max(0, timeout - age).
C29_SleepHintCoversTable ==
    (Tended /\ calls[1].ok) =>
      /\ tick_timeout >= 0
      /\ \A r \in MapValues(io.pending_requests) : tick_timeout <= TimeLeft(r)
      /\ io.pending_requests # EmptyMap =>
            \E r \in MapValues(io.pending_requests) : tick_timeout = TimeLeft(r)

\* ----------------------------------------------- the hint of Timers::fire
\* the time left until registration reg is next due, once a pass at the
\* present time has fired it if it was due
NextDue(reg) ==
    IF now - reg.last_fire >= reg.interval THEN reg.interval
    ELSE reg.interval - (now - reg.last_fire)

\* Node::run is about to call rpc_tend and timers.fire()
Firing == pc = "tend" /\ now - last_tick >= tick_timeout

\* C30: Timers::fire returns the minimum, over all the registrations, in any
\* number and in any order of registration, of the time left until the
\* registration is next due (its full interval if it fired in this pass).
C30_FireHintIsMinimum ==
    (Firing /\ regs # <<>>) =>
       /\ \A i \in DOMAIN regs : fire(regs).sleep <= NextDue(regs[i])
       /\ \E i \in DOMAIN regs : fire(regs).sleep = NextDue(regs[i])

\* ------------------------------------------- the on_rpc_timeout callbacks
\* the on_rpc_timeout callbacks made for the request with id k
TimeoutCalls(k) ==
    {j \in DOMAIN calls : calls[j].cb = "on_rpc_timeout" /\ calls[j].arg = k}

\* the removals of the tender
Expiries == {i \in DOMAIN io.hist : io.hist[i].op = "expire"}

\* the callback calls[j] came after the tender had removed entry k and, for
\* a request with retry, had written its replacement
AfterRemoval(j) ==
    \E i \in Expiries :
       /\ io.hist[i].key = calls[j].arg
       /\ io.hist[i].request.retry =>
             \E e \in 1..calls[j].out :
                /\ io.stdout[e].body.id > calls[j].arg
                /\ io.stdout[e].dst = io.hist[i].request.dst
                /\ io.stdout[e].body.payload = io.hist[i].request.payload
                /\ \E h \in DOMAIN io.hist :
                      /\ h > i
                      /\ io.hist[h].op = "insert"
                      /\ io.hist[h].key = io.stdout[e].body.id
                      /\ io.hist[h].at = io.hist[i].at

\* the callbacks are made only for entries the tender removed, after the
\* removal and the re-issue, and never for an entry that a reply completed
CallbacksFollowExpiry ==
    \A j \in DOMAIN calls : calls[j].cb = "on_rpc_timeout" =>
       /\ AfterRemoval(j)
       /\ calls[j].arg \notin DOMAIN io.pending_requests
       /\ \A h \in DOMAIN io.hist : io.hist[h].op = "complete" =>
             io.hist[h].key # calls[j].arg

\* C31 as stated: after each tender pass on_rpc_timeout is invoked exactly
\* once for every entry that expired in that pass, retryable or not, after
\* the entry was removed and its replacement written, and never for an entry
\* that rpc_mark_completed removed.
C31_CallbackForEveryExpiry ==
    /\ \A i \in Expiries : Cardinality(TimeoutCalls(io.hist[i].key)) = 1
    /\ CallbacksFollowExpiry

\* C31 amended: on_rpc_timeout is invoked at most once for an entry, exactly
\* once for every entry that expired while every callback so far returned
\* Ok; the first callback that returns an error ends run, and the entries
\* that expired in the same pass after it get no callback.
C31_CallbackUntilFirstError ==
    /\ \A i \in Expiries : Cardinality(TimeoutCalls(io.hist[i].key)) <= 1
    /\ (\A j \in DOMAIN calls : calls[j].ok) =>
          \A i \in Expiries : Cardinality(TimeoutCalls(io.hist[i].key)) = 1
    /\ (\E j \in DOMAIN calls : ~calls[j].ok) =>
          /\ pc = "failed"
          /\ \A j \in DOMAIN calls : ~calls[j].ok => j = Len(calls)
    /\ CallbacksFollowExpiry

\* C31 witness: one pass has removed two entries, one of them issued without
\* retry, and the callback for the first returned an error: the second got
\* none
C31_Witness ==
    /\ pc = "failed"
    /\ \E i, k \in Expiries :
          /\ io.hist[i].at = io.hist[k].at
          /\ ~io.hist[i].request.retry
          /\ io.hist[k].request.retry
          /\ TimeoutCalls(io.hist[i].key) = {}
          /\ TimeoutCalls(io.hist[k].key) # {}

\* ------------------------------------------------ the cadence of a timer
\* the number of Timer events for tag in the channel q
RECURSIVE TimerEvents(_, _)
TimerEvents(q, tag) ==
    IF q = <<>> THEN 0
    ELSE (IF Head(q).kind = "Timer" /\ Head(q).timer = tag THEN 1 ELSE 0)
         + TimerEvents(Tail(q), tag)

\* C32: one pass of the timer registry sends at most one Timer event per
\* registration, however late the loop runs, and sets last_fire of that
\* registration to the present time; a registration fires only when at least
\* its interval has passed since it last fired, or since it was registered.
C32_OneFiringPerPass ==
    [][ \A i \in DOMAIN regs :
          LET sent == TimerEvents(queue', regs[i].timer) - TimerEvents(queue, regs[i].timer)
          IN /\ sent <= 1
             /\ sent = 1 => /\ regs'[i].last_fire = now
                            /\ now - regs[i].last_fire >= regs[i].interval
             /\ regs'[i].last_fire # regs[i].last_fire => sent = 1 ]_vars

\* C32 witness: the loop has run four intervals late for a timer, and the
\* pass has fired it once
C32_Witness ==
    \E i \in DOMAIN regs :
       /\ now >= 4 * regs[i].interval
       /\ regs[i].last_fire = now
       /\ TimerEvents(queue, regs[i].timer) + Fired(regs[i].timer) = 1

\* ------------------------------------ broadcast-tree-batch: the topology
\* the index i of node ni in a cluster of N nodes
IndexOf(n, N) == CHOOSE i \in 0..(N - 1) : NodeNames(N)[i + 1] = n

\* the neighbours the two-root tree gives node n in a cluster of N nodes:
\* the roots n0 and n1 are linked, the first half of the other nodes hangs
\* on n0 and the second half on n1
TreeNeighbours(n, N) ==
    LET nm == NodeNames(N)
        half == (N - 2) \div 2
        first == {nm[i + 1] : i \in 2..(1 + half)}
        second == {nm[i + 1] : i \in (2 + half)..(N - 1)}
    IN CASE n = "n0" -> first \cup (IF N >= 2 THEN {"n1"} ELSE {})
         [] n = "n1" -> second \cup {"n0"}
         [] n \in first -> {"n0"}
         [] OTHER -> {"n1"}

\* node n came out of init with the neighbours of the two-root tree, each
\* listed once
HasTreeNeighbours(n) ==
    LET N == Cardinality(DOMAIN nodes) IN
    /\ nodes[n].status = "up"
    /\ SeqToSet(nodes[n].st.neighbours) = TreeNeighbours(n, N)
    /\ Len(nodes[n].st.neighbours) = Cardinality(TreeNeighbours(n, N))
    /\ \A x \in DOMAIN nodes :
          x \in TreeNeighbours(n, N) <=> n \in TreeNeighbours(x, N)

\* C33: for every cluster n0 .. n(N-1), N >= 1, init of broadcast-tree-batch
\* succeeds with n0 and n1 each other's neighbours, every other node having
\* exactly one neighbour (n0 for the first half by index, n1 for the second),
\* a symmetric relation that connects the N nodes.
C33_TwoRootTopology ==
    \A n \in DOMAIN nodes : nodes[n].status # "new" => HasTreeNeighbours(n)

\* ------------------------------------- broadcast-tree-batch: the outbox
\* C34: a node of broadcast-tree-batch puts a value into its outbox only when
\* it learns the value for the first time, so that a value the node has sent
\* in a batch is never in its outbox again (and the batches between
\* neighbours come to an end, every outbox empty).
C34_OutboxOnlyFirstLearnt ==
    \A n \in DOMAIN nodes :
       nodes[n].status = "up" => nodes[n].st.outbox \cap Gossiped(n) = {}

\* ------------------------------------------ kafka: one record per send
\* the kafka nodes that have been initialised
KafkaNodes == {n \in DOMAIN nodes : nodes[n].wl = "kafka" /\ nodes[n].status # "new"}

\* the number of records of the logs node n leads
RECURSIVE RecordsLed(_, _)
RecordsLed(n, keys) ==
    IF keys = {} THEN 0
    ELSE LET k == CHOOSE x \in keys : TRUE
         IN Len(nodes[n].st.logs[k]) + RecordsLed(n, keys \ {k})

\* the number of records in the logs of the leaders
RECURSIVE LeaderRecords(_)
LeaderRecords(S) ==
    IF S = {} THEN 0
    ELSE LET n == CHOOSE x \in S : TRUE
         IN RecordsLed(n, Led(nodes[n].io.cluster_state, nodes[n].st))
            + LeaderRecords(S \ {n})

\* C36: every send of a client puts at most one record into the log of the
\* leader of its key, also when the forward of the send times out and is
\* issued again before the leader's send_ok arrives.
C36_OneRecordPerSend ==
    LeaderRecords(KafkaNodes) <= TotalRequests(DOMAIN nodes)

\* ------------------------------------------- kafka: the leader's offsets
\* the offsets of the send_ok envelopes node n has written, in order
SendOkOffsets(n) ==
    LET oks == SelectSeq(nodes[n].io.stdout,
                         LAMBDA m : m.body.payload.type = "send_ok")
    IN [i \in DOMAIN oks |-> oks[i].body.payload.offset]

\* node n has forwarded no send: every send_ok it has written answers a send
\* it appended itself
NoForwards(n) ==
    \A i \in DOMAIN nodes[n].io.hist :
       nodes[n].io.hist[i].op = "insert"
          => nodes[n].io.hist[i].request.payload.type # "send"

\* C35: on the leader of a key the record at index i of the log has offset
\* i, and the offsets the leader returns in send_ok are 0, 1, 2, ... in the
\* order of the appends, none of them twice.
C35_LeaderOffsets ==
    \A n \in KafkaNodes :
       \A k \in Led(nodes[n].io.cluster_state, nodes[n].st) :
          LET log == nodes[n].st.logs[k] IN
          /\ \A i \in DOMAIN log : log[i][1] = i - 1
          /\ (Led(nodes[n].io.cluster_state, nodes[n].st) = {k} /\ NoForwards(n))
                => SendOkOffsets(n) = [i \in DOMAIN log |-> i - 1]

\* the leader n0 of key "0" has appended two records and answered both
\* sends, one of them forwarded by n1, and the poll of a replica has been
\* answered with records
C35_Witness ==
    /\ KafkaNodes = {"n0", "n1"}
    /\ "0" \in DOMAIN nodes["n0"].st.logs
    /\ Len(nodes["n0"].st.logs["0"]) = 2
    /\ SendOkOffsets("n0") = <<0, 1>>
    /\ \E i \in DOMAIN nodes["n0"].io.stdout :
          /\ nodes["n0"].io.stdout[i].dst = "n1"
          /\ nodes["n0"].io.stdout[i].body.payload.type = "send_ok"
    /\ "0" \in DOMAIN nodes["n1"].st.logs

\* ------------------------------------------------- kafka: the replicas
\* sequence s is a prefix of sequence t
IsPrefix(s, t) == Len(s) <= Len(t) /\ s = SubSeq(t, 1, Len(s))

\* C37: at every replica the log of a key is a prefix of the log of the
\* key's leader, in whatever order the ticks of the ReplicaPoll timers and
\* the replica_poll_ok answers come, several polls being outstanding at once.
C37_ReplicaIsPrefix ==
    \A n \in KafkaNodes :
       \A k \in DOMAIN nodes[n].st.logs :
          LeaderOf(k) \in KafkaNodes
             => IsPrefix(nodes[n].st.logs[k], LogOf(nodes[LeaderOf(k)].st.logs, k))

\* ------------------------------------------- kafka: commit_offsets traffic
\* no commit_offsets request is in flight between nodes
NoCommitInFlight == \A m \in net : m.body.payload.type # "commit_offsets"

CommitsNeverDrain ==
    [][(Cardinality(DOMAIN nodes) = 3 /\ ~NoCommitInFlight) => ~NoCommitInFlight']_vars

\* ------------------------------------------- txn-kv-two-node: the stores
\* every client txn has been answered and every replicate delivered and
\* acknowledged
Replicated ==
    /\ \A n \in DOMAIN nodes :
          nodes[n].status = "up" /\ nodes[n].io.pending_requests = EmptyMap
    /\ net = {}

\* C39: once the client txns have been processed and every replicate has been
\* delivered and acknowledged, the stores of the two nodes map every key to
\* the same value, whatever the order of delivery and also when both nodes
\* were given writes to the same key.
C39_StoresConverge ==
    Replicated => nodes["n0"].st.store = nodes["n1"].st.store

\* --------------------------------------------- rpc_tend: the unreachable arm
\* C40: the arm bail!("this shouldn't happen") of rpc_tend is never taken:
\* every expired entry is found in the table when the loop comes to it,
\* because the ids of the requests re-issued during the pass are new and
\* equal the id of no entry the pass has still to remove.
C40_ReissueNeverCollides ==
    Tended =>
      /\ calls[1].ok
      /\ \A i \in DOMAIN WrittenByPass :
            /\ WrittenByPass[i].body.id \notin DOMAIN Before
            /\ WrittenByPass[i].body.id >= calls[1].before.seq
            /\ \A j \in DOMAIN WrittenByPass :
                  WrittenByPass[i].body.id = WrittenByPass[j].body.id => i = j

\* C40 witness: a pass has removed two expired entries with retry, the second
\* one after the first had been issued again
C40_Witness ==
    /\ Tended
    /\ calls[1].ok
    /\ Cardinality({r \in ExpiredBefore : r.retry}) = 2
    /\ Len(WrittenByPass) = 2

============================================================================
